---- MODULE Spec2Model ----
(***************************************************************************)
(* Level lifecycle of the game template: BaseLevel and the levels derived  *)
(* from it (PhysicsCollisionLevel, PhysicsOverlapLevel,                    *)
(* AioBotCharacterLevel) and the stand-alone MenuTestLevel.  One level     *)
(* instance is modelled together with the browser resources it creates:    *)
(* timers, animation-frame requests, canvas listeners, event-bus           *)
(* listeners, entities and DOM nodes.                                      *)
(***************************************************************************)
EXTENDS Integers, Sequences, FiniteSets, TLC

\* Bound of the model: how many times in one behaviour the level is asked to
\* build its scene (start() calls plus webglcontextrestored events).
MaxBuilds == 2

\* animationFrameId: number | null = null
Null == 0

BaseKinds == {"PhysicsCollisionLevel", "PhysicsOverlapLevel", "AioBotCharacterLevel"}
PhysicsKinds == {"PhysicsCollisionLevel", "PhysicsOverlapLevel"}
Kinds == BaseKinds \cup {"MenuTestLevel"}
AllSystems == {"SceneSystem", "RenderSystem", "WindowSystem", "GameUIRegistrationSystem"}
FrameOutcomes == {"ok", "updateThrows", "renderThrows"}
InitOutcomes == {"ok", "reinitThrows", "notReady", "setupThrows", "setupThrowsLate"}
RestoreOutcomes == {"ok", "recreateThrows"}
TimerKinds == {"start", "initialImpulse", "impulseInterval", "debugInterval",
               "test5s", "test3s", "idle"}
IntervalKinds == {"impulseInterval", "debugInterval"}

VARIABLES
  kind,        \* the class of the level being constructed
  systems,     \* world.getSystems(): the systems present in the world
  instance,    \* "none", "live" (constructor returned) or "threw"
  st,          \* the level's fields and the browser resources it created
  cleaned,     \* history: cleanup() has been called on the instance
  builds,      \* history: start() calls plus context restorations so far
  halted,      \* history: a frame threw and nothing restarted the level since
  ui,          \* SimpleLevel / MainMenuLevel: the DOM nodes and entities they own
  mgr,         \* level switching: the level instances created so far, in order
  reg,         \* registration systems: the notified entity and the scene graph
  spin,        \* spinning system: the world's entities and the frames applied
  imp,         \* periodic impulse: the invocation's body, callback and events
  col,         \* collision handlers: target colours and the colour cache
  pf,          \* prefabs: the clock, the prefabs built and the registry
  cfg,         \* prefab construction: the configuration given and the prefab returned
  tpl,         \* prefab registry and the entities instantiated from it
  loop,        \* frame loop of one level with its clock and history
  bus,         \* event bus: the listeners attached by levels and systems
  dbg,         \* PhysicsDebugSystem: rigid bodies, debugObjects and the scene
  msr          \* MeshRegistrationSystem: the order of initialisation

levelVars == <<kind, systems, instance, st, cleaned, builds, halted>>
subVars == <<ui, mgr, reg, spin, imp, col, pf,
            cfg, tpl, loop, bus, dbg, msr>>
vars == <<levelVars, subVars>>

\* Each specification below exercises one part of the program; the variables
\* of the other parts are parked at this value and never change.
Unused == "unused"

----------------------------------------------------------------------------
\* Call/log trace of the handler that ran last.

Ev(e) == [ev |-> e, arg |-> 0]
Log(s, e) == [s EXCEPT !.trace = Append(@, Ev(e))]
Begin(s) == [s EXCEPT !.trace = <<>>]
HasEv(tr, e) == \E i \in 1..Len(tr) : tr[i].ev = e
Count(tr, e) == Cardinality({i \in 1..Len(tr) : tr[i].ev = e})
First(tr, e) == CHOOSE i \in 1..Len(tr) : tr[i].ev = e /\ \A j \in 1..(i - 1) : tr[j].ev # e

----------------------------------------------------------------------------
\* Browser primitives.  Pending timers are counted per callback (timers of
\* one callback are interchangeable); a frame handle is unique among the
\* handles still pending or still held in animationFrameId.

Pending(s) == {s.frames[i] : i \in 1..Len(s.frames)}

UsedHandles(s) == Pending(s) \cup {s.animationFrameId}

RECURSIVE FreshFrom(_, _)
FreshFrom(n, used) == IF n \notin used THEN n ELSE FreshFrom(n + 1, used)

Fresh(s) == FreshFrom(1, UsedHandles(s))

FreshCanvas(s) == FreshFrom(1, {s.canvas} \cup {l[1] : l \in s.listeners})

setTimeout(s, k) == [s EXCEPT !.timers[k] = @ + 1]

clearTimer(s, k) == [s EXCEPT !.timers[k] = @ - 1]

\* const h = setInterval(...); this.cleanupCallbacks.push(() => clearInterval(h))
setIntervalTracked(s, k) ==
  [s EXCEPT !.timers[k] = @ + 1,
            !.cleanupCallbacks = Append(@, [op |-> "clearInterval", of |-> k])]

cancelAnimationFrame(s, id) ==
  LET Keep(h) == h # id
  IN [s EXCEPT !.frames = SelectSeq(@, Keep)]

requestAnimationFrame(s) ==
  LET id == Fresh(s)
  IN [s EXCEPT !.frames = Append(@, id), !.animationFrameId = id]

\* SceneSystem.reinitializeRenderer(): the engine may or may not replace the
\* renderer's canvas (the level reads the canvas again after the call).
reinitializeRenderer(s, replace) ==
  [Log(s, "reinitializeRenderer") EXCEPT !.canvas = IF replace THEN FreshCanvas(s) ELSE @]

----------------------------------------------------------------------------
\* BaseLevel

InitLevel ==
  [timers |-> [k \in TimerKinds |-> 0], frames |-> <<>>, animationFrameId |-> Null, canvas |-> 1,
   listeners |-> {}, rendererReady |-> TRUE, awaiting |-> 0,
   cleanupCallbacks |-> <<>>, entities |-> 0, domNodes |-> 0,
   uiContainer |-> "null", busListeners |-> 0, inspecting |-> 0, trace |-> <<>>]

RequiredSystemsMissingWindow(k) ==
  IF k = "MenuTestLevel" THEN {"SceneSystem", "GameUIRegistrationSystem"}
  ELSE {"SceneSystem", "RenderSystem"}

RequiredSystems(k) ==
  IF k = "MenuTestLevel" THEN {"SceneSystem", "GameUIRegistrationSystem"}
  ELSE {"SceneSystem", "RenderSystem", "WindowSystem"}

start(s) == setTimeout(Log(s, "start"), "start")

stop(s) ==
  LET s1 == Log(s, "stop")
      s2 == IF s1.animationFrameId # Null
            THEN [cancelAnimationFrame(s1, s1.animationFrameId) EXCEPT !.animationFrameId = Null]
            ELSE s1
  IN [s2 EXCEPT !.listeners = @ \ {<<s2.canvas, "webglcontextlost">>,
                                    <<s2.canvas, "webglcontextrestored">>}]

animate(s, out) ==
  LET s1 == Log(requestAnimationFrame(Log(s, "animate")), "world.update")
  IN IF out = "updateThrows" THEN stop(Log(s1, "error:animate"))
     ELSE IF out = "stopInUpdate"
          THEN IF s1.rendererReady THEN Log(stop(s1), "render") ELSE stop(s1)
     ELSE IF ~s1.rendererReady THEN s1
     ELSE IF out = "renderThrows" THEN stop(Log(Log(s1, "render"), "error:animate"))
     ELSE Log(s1, "render")

\* Variant: the handle is forgotten without cancelling the pending frame.
handleContextLossKeepsFrame(s) ==
  [Log(s, "handleContextLoss") EXCEPT !.animationFrameId = Null]

handleContextLoss(s) ==
  LET s1 == Log(s, "handleContextLoss")
  IN IF s1.animationFrameId # Null
     THEN [cancelAnimationFrame(s1, s1.animationFrameId) EXCEPT !.animationFrameId = Null]
     ELSE s1

----------------------------------------------------------------------------
\* Level-specific hooks

applyInitialImpulse(s) == setTimeout(s, "initialImpulse")

enforcePhysicsMovement(s) == setIntervalTracked(applyInitialImpulse(s), "impulseInterval")

startPhysicsDebugLogger(s) == setIntervalTracked(s, "debugInterval")

setupOverlapHandlers(s) ==
  [s EXCEPT !.busListeners = @ + 2,
            !.cleanupCallbacks = Append(@, [op |-> "off", of |-> "collision"])]

setupLevel(s, k) ==
  LET s0 == Log(s, "setupLevel")
  IN CASE k = "PhysicsCollisionLevel" ->
            LET s1 == enforcePhysicsMovement([s0 EXCEPT !.entities = @ + 6])
                s2 == [s1 EXCEPT !.busListeners = @ + 2]
            IN startPhysicsDebugLogger(s2)
       [] k = "PhysicsOverlapLevel" ->
            LET s1 == enforcePhysicsMovement([s0 EXCEPT !.entities = @ + 7])
            IN setTimeout(setupOverlapHandlers(s1), "test5s")
       [] OTHER ->
            setTimeout([s0 EXCEPT !.entities = @ + 5, !.domNodes = @ + 2,
                                  !.uiContainer = "attached", !.inspecting = @ + 1],
                       "idle")

recreateSceneAfterContextRestore(s, k) ==
  LET s0 == Log(s, "recreateSceneAfterContextRestore")
  IN IF k \in PhysicsKinds THEN setupLevel(s0, k)
     ELSE [s0 EXCEPT !.entities = @ + 3]

RECURSIVE RunCallbacks(_, _)
RunCallbacks(s, i) ==
  IF i > Len(s.cleanupCallbacks) THEN s
  ELSE LET cb == s.cleanupCallbacks[i]
           s1 == [s EXCEPT !.trace = Append(@, [ev |-> "callback", arg |-> i])]
           s2 == IF cb.op = "clearInterval"
                 THEN clearTimer(s1, cb.of)
                 ELSE [s1 EXCEPT !.busListeners = @ - 2]
       IN RunCallbacks(s2, i + 1)

cleanupLevelSpecifics(s, k) ==
  LET s0 == Log(s, "cleanupLevelSpecifics")
  IN IF k \in PhysicsKinds
     THEN [RunCallbacks(s0, 1) EXCEPT !.cleanupCallbacks = <<>>]
     ELSE IF s0.uiContainer = "attached"
          THEN [s0 EXCEPT !.domNodes = @ - 1, !.uiContainer = "detached"]
          ELSE s0

\* Variant: the level-specific teardown runs before stop().
cleanupTeardownFirst(s, k) == stop(cleanupLevelSpecifics(Log(s, "cleanup"), k))

cleanup(s, k) == cleanupLevelSpecifics(stop(Log(s, "cleanup")), k)

----------------------------------------------------------------------------
\* BaseLevel.initializeLevel is async: it runs up to the await of
\* reinitializeRenderer() in the timer callback and resumes later.

initializeLevelBegin(s, replace) ==
  LET s1 == Log(s, "initializeLevel")
      s2 == [s1 EXCEPT !.listeners = @ \cup {<<s1.canvas, "webglcontextlost">>}]
  IN [reinitializeRenderer(s2, replace) EXCEPT !.awaiting = @ + 1]

\* Variant: the initialization never starts the frame loop.
initializeLevelResumeNoLoop(s, k, out, fout) ==
  LET s0 == Log([s EXCEPT !.awaiting = @ - 1], "initializeLevel:resume")
      s1 == [s0 EXCEPT !.listeners = @ \cup {<<s0.canvas, "webglcontextrestored">>},
                       !.rendererReady = (out # "notReady")]
  IN CASE out = "reinitThrows" -> Log(s0, "error:initializeLevel")
       [] out = "notReady" -> Log(s1, "error:renderer")
       [] out = "setupThrows" -> Log(Log(s1, "setupLevel"), "error:initializeLevel")
       [] out = "setupThrowsLate" -> Log(setupLevel(s1, k), "error:initializeLevel")
       [] OTHER -> setupLevel(s1, k)

\* Variant: the frame loop is started although the renderer is not ready.
initializeLevelResumeLoopAnyway(s, k, out, fout) ==
  LET s0 == Log([s EXCEPT !.awaiting = @ - 1], "initializeLevel:resume")
      s1 == [s0 EXCEPT !.listeners = @ \cup {<<s0.canvas, "webglcontextrestored">>},
                       !.rendererReady = (out # "notReady")]
  IN CASE out = "reinitThrows" -> Log(s0, "error:initializeLevel")
       [] out = "notReady" ->
            LET s2 == Log(s1, "error:renderer")
            IN IF s2.animationFrameId = Null THEN animate(s2, fout) ELSE s2
       [] out = "setupThrows" -> Log(Log(s1, "setupLevel"), "error:initializeLevel")
       [] out = "setupThrowsLate" -> Log(setupLevel(s1, k), "error:initializeLevel")
       [] OTHER ->
            LET s2 == setupLevel(s1, k)
            IN IF s2.animationFrameId = Null THEN animate(s2, fout) ELSE s2

\* The part of initializeLevel after the await.  setupLevel() may throw on
\* its first statement ("setupThrows") or on its last ("setupThrowsLate").
initializeLevelResume(s, k, out, fout) ==
  LET s0 == Log([s EXCEPT !.awaiting = @ - 1], "initializeLevel:resume")
      s1 == [s0 EXCEPT !.listeners = @ \cup {<<s0.canvas, "webglcontextrestored">>},
                       !.rendererReady = (out # "notReady")]
  IN CASE out = "reinitThrows" -> Log(s0, "error:initializeLevel")
       [] out = "notReady" -> Log(s1, "error:renderer")
       [] out = "setupThrows" -> Log(Log(s1, "setupLevel"), "error:initializeLevel")
       [] out = "setupThrowsLate" -> Log(setupLevel(s1, k), "error:initializeLevel")
       [] OTHER ->
            LET s2 == setupLevel(s1, k)
            IN IF s2.animationFrameId = Null THEN animate(s2, fout) ELSE s2

\* Variant: the scene is not rebuilt after the context came back.
handleContextRestoredNoRebuild(s, k, replace, out, fout) ==
  LET s1 == reinitializeRenderer(Log(s, "handleContextRestored"), replace)
  IN IF s1.animationFrameId = Null THEN animate(s1, fout) ELSE s1

handleContextRestored(s, k, replace, out, fout) ==
  LET s1 == reinitializeRenderer(Log(s, "handleContextRestored"), replace)
  IN IF out = "recreateThrows"
     THEN Log(Log(s1, "recreateSceneAfterContextRestore"), "uncaught")
     ELSE LET s2 == recreateSceneAfterContextRestore(s1, k)
          IN IF s2.animationFrameId = Null THEN animate(s2, fout) ELSE s2

\* Callbacks of the timers the levels schedule besides the start delay.
timerCallback(s, k) ==
  LET s0 == IF k \in IntervalKinds THEN s ELSE clearTimer(s, k)
  IN CASE k = "initialImpulse" -> Log(s0, "applyInitialImpulse")
       [] k = "impulseInterval" -> Log(s0, "applyPeriodicImpulse")
       [] k = "debugInterval" -> Log(s0, "physicsDebugLog")
       [] k = "test5s" ->
            IF s0.entities > 0
            THEN setTimeout(Log(Log(s0, "testCollision"), "emit:collisionStart"), "test3s")
            ELSE Log(s0, "testCollision")
       [] k = "test3s" -> Log(s0, "emit:collisionEnd")
       [] OTHER -> Log(s0, "emit:animation_state_change")

\* inspectAllAnimations().then(...).catch(...)
inspectSettles(s, ok) ==
  Log([s EXCEPT !.inspecting = @ - 1], IF ok THEN "info:inspect" ELSE "error:inspect")

----------------------------------------------------------------------------
\* MenuTestLevel

menuTestAnimate(s, out) ==
  LET s1 == Log(Log(s, "animate"), "world.update")
  IN IF out = "updateThrows" \/ out = "renderThrows"
     THEN LET s2 == Log(IF out = "renderThrows" THEN Log(s1, "render") ELSE s1, "error:animate")
          IN IF s2.animationFrameId # Null
             THEN cancelAnimationFrame(s2, s2.animationFrameId)
             ELSE s2
     ELSE requestAnimationFrame(Log(s1, "render"))

menuTestStart(s, fout) == menuTestAnimate([Log(s, "start") EXCEPT !.entities = @ + 3], fout)

menuTestCleanup(s) ==
  LET s1 == Log(s, "cleanup")
  IN IF s1.animationFrameId # Null THEN cancelAnimationFrame(s1, s1.animationFrameId) ELSE s1

menuTestStop(s) ==
  LET s1 == Log(s, "stop")
  IN IF s1.animationFrameId # Null
     THEN [cancelAnimationFrame(s1, s1.animationFrameId) EXCEPT !.animationFrameId = Null]
     ELSE s1

----------------------------------------------------------------------------
\* The state machine

Init ==
  /\ kind \in Kinds
  /\ systems \in {AllSystems} \cup {AllSystems \ {x} : x \in AllSystems}
  /\ instance = "none"
  /\ st = InitLevel
  /\ cleaned = FALSE
  /\ builds = 0
  /\ halted = FALSE
  /\ ui = Unused
  /\ mgr = Unused
  /\ reg = Unused
  /\ spin = Unused
  /\ imp = Unused
  /\ col = Unused
  /\ pf = Unused
  /\ cfg = Unused
  /\ tpl = Unused
  /\ loop = Unused
  /\ bus = Unused
  /\ dbg = Unused
  /\ msr = Unused

FrameThrew(s) == HasEv(s.trace, "error:animate")

Construct ==
  /\ instance = "none"
  /\ IF RequiredSystems(kind) \subseteq systems
     THEN /\ instance' = "live"
          /\ st' = Log(Begin(st), "constructor")
     ELSE /\ instance' = "threw"
          /\ st' = Log(Log(Log(Begin(st), "constructor"), "logger.error"), "throw")
  /\ UNCHANGED <<kind, systems, cleaned, builds, halted>>
  /\ UNCHANGED subVars

Start(fout) ==
  /\ instance = "live"
  /\ builds < MaxBuilds
  /\ st' = IF kind = "MenuTestLevel" THEN menuTestStart(Begin(st), fout) ELSE start(Begin(st))
  /\ builds' = builds + 1
  /\ halted' = FrameThrew(st')
  /\ UNCHANGED <<kind, systems, instance, cleaned>>
  /\ UNCHANGED subVars

StartTimerFires(replace) ==
  /\ st.timers["start"] > 0
  /\ st' = initializeLevelBegin(clearTimer(Begin(st), "start"), replace)
  /\ UNCHANGED <<kind, systems, instance, cleaned, builds, halted>>
  /\ UNCHANGED subVars

InitResume(out, fout) ==
  /\ st.awaiting > 0
  /\ st' = initializeLevelResume(Begin(st), kind, out, fout)
  /\ halted' = (halted \/ FrameThrew(st'))
  /\ UNCHANGED <<kind, systems, instance, cleaned, builds>>
  /\ UNCHANGED subVars

\* The browser runs the pending animation-frame callbacks in request order.
Frame(out) ==
  /\ st.frames # <<>>
  /\ st' = IF kind = "MenuTestLevel"
           THEN menuTestAnimate([Begin(st) EXCEPT !.frames = Tail(@)], out)
           ELSE animate([Begin(st) EXCEPT !.frames = Tail(@)], out)
  /\ halted' = (halted \/ FrameThrew(st'))
  /\ UNCHANGED <<kind, systems, instance, cleaned, builds>>
  /\ UNCHANGED subVars

TimerFires(k) ==
  /\ k # "start"
  /\ st.timers[k] > 0
  /\ st' = timerCallback(Begin(st), k)
  /\ UNCHANGED <<kind, systems, instance, cleaned, builds, halted>>
  /\ UNCHANGED subVars

InspectSettles(ok) ==
  /\ st.inspecting > 0
  /\ st' = inspectSettles(Begin(st), ok)
  /\ UNCHANGED <<kind, systems, instance, cleaned, builds, halted>>
  /\ UNCHANGED subVars

ContextLost(c) ==
  /\ <<c, "webglcontextlost">> \in st.listeners
  /\ st' = handleContextLoss(Begin(st))
  /\ UNCHANGED <<kind, systems, instance, cleaned, builds, halted>>
  /\ UNCHANGED subVars

ContextRestored(c, replace, out, fout) ==
  /\ <<c, "webglcontextrestored">> \in st.listeners
  /\ builds < MaxBuilds
  /\ st' = handleContextRestored(Begin(st), kind, replace, out, fout)
  /\ builds' = builds + 1
  /\ halted' = FrameThrew(st')
  /\ UNCHANGED <<kind, systems, instance, cleaned>>
  /\ UNCHANGED subVars

Stop ==
  /\ instance = "live"
  /\ st' = IF kind = "MenuTestLevel" THEN menuTestStop(Begin(st)) ELSE stop(Begin(st))
  /\ UNCHANGED <<kind, systems, instance, cleaned, builds, halted>>
  /\ UNCHANGED subVars

Cleanup ==
  /\ instance = "live"
  /\ st' = IF kind = "MenuTestLevel" THEN menuTestCleanup(Begin(st)) ELSE cleanup(Begin(st), kind)
  /\ cleaned' = TRUE
  /\ UNCHANGED <<kind, systems, instance, builds, halted>>
  /\ UNCHANGED subVars

StartTimerStep == \E replace \in BOOLEAN : StartTimerFires(replace)
InitResumeStep == \E out \in InitOutcomes, fout \in FrameOutcomes : InitResume(out, fout)

Next ==
  \/ Construct
  \/ \E fout \in FrameOutcomes : Start(fout)
  \/ StartTimerStep
  \/ InitResumeStep
  \/ \E out \in FrameOutcomes : Frame(out)
  \/ \E k \in TimerKinds : TimerFires(k)
  \/ \E ok \in BOOLEAN : InspectSettles(ok)
  \/ \E c \in {l[1] : l \in st.listeners} : ContextLost(c)
  \/ \E c \in {l[1] : l \in st.listeners}, replace \in BOOLEAN,
        out \in RestoreOutcomes, fout \in FrameOutcomes : ContextRestored(c, replace, out, fout)
  \/ Stop
  \/ Cleanup

Spec == Init /\ [][Next]_vars

\* The browser runs every due timer callback and resumes every settled await.
FairSpec == Spec /\ WF_vars(StartTimerStep) /\ WF_vars(InitResumeStep)

----------------------------------------------------------------------------
\* Vocabulary of the properties

NoTimers(s) == \A k \in TimerKinds : s.timers[k] = 0
NoActiveHandles(s) == s.frames = <<>> /\ NoTimers(s)
Resources(s) ==
  <<s.timers, s.frames, s.animationFrameId, s.listeners, s.cleanupCallbacks,
    s.entities, s.domNodes, s.uiContainer, s.busListeners>>
CleanupOf(s) ==
  IF kind = "MenuTestLevel" THEN menuTestCleanup(Begin(s)) ELSE cleanup(Begin(s), kind)
Ran(s, e) == s.trace # <<>> /\ Head(s.trace).ev = e
TimerCallbacks ==
  {"initializeLevel", "applyInitialImpulse", "applyPeriodicImpulse", "physicsDebugLog",
   "testCollision", "emit:collisionEnd", "emit:animation_state_change"}
LoopRunning(s) == s.animationFrameId # Null /\ s.animationFrameId \in Pending(s)
Threw(s) == HasEv(s.trace, "uncaught") \/ HasEv(s.trace, "error:animate")

----------------------------------------------------------------------------
\* C1: in any lifecycle state, a cleanup() directly followed by a second
\* cleanup() does not throw, leaves no pending frame request and no active
\* timer, and the second call changes nothing the first one left.
C1_CleanupTwice ==
  (instance = "live" /\ Ran(st, "cleanup")) =>
    LET s2 == CleanupOf(st)
    IN /\ ~HasEv(s2.trace, "uncaught")
       /\ NoActiveHandles(s2)
       /\ Resources(s2) = Resources(st)

\* C2: every timer of the level is cancelled by cleanup(): when cleanup()
\* returns no timer of the level is pending, and once cleanup() has been
\* called no timer callback of the level runs.
C2_TimersCancelled ==
  /\ (kind \in BaseKinds /\ Ran(st, "cleanup")) => NoTimers(st)
  /\ (kind \in BaseKinds /\ cleaned /\ st.trace # <<>>) => Head(st.trace).ev \notin TimerCallbacks

\* C3: when stop() returns on a BaseLevel-derived level no frame request is
\* pending, animationFrameId is null, the context handlers are attached to no
\* canvas at all, and the entities of the world are those from before the call.
C3_StopDetaches ==
  [][(kind \in BaseKinds /\ st'.trace = <<Ev("stop")>>) =>
       /\ st'.animationFrameId = Null
       /\ st'.frames = <<>>
       /\ st'.listeners = {}
       /\ st'.entities = st.entities]_vars

LossKeepsLevel ==
  Ran(st', "handleContextLoss") =>
    /\ st'.animationFrameId = Null
    /\ st'.frames = <<>>
    /\ st'.entities = st.entities
    /\ st'.listeners = st.listeners
    /\ st'.busListeners = st.busListeners
    /\ st'.timers = st.timers
    /\ st'.cleanupCallbacks = st.cleanupCallbacks

RebuildOnceBeforeLoop ==
  Ran(st', "handleContextRestored") =>
    /\ Count(st'.trace, "recreateSceneAfterContextRestore") = 1
    /\ Count(st'.trace, "animate") <= 1
    /\ HasEv(st'.trace, "animate") =>
         First(st'.trace, "recreateSceneAfterContextRestore") < First(st'.trace, "animate")
    /\ (st.animationFrameId = Null /\ ~HasEv(st'.trace, "uncaught")) => HasEv(st'.trace, "animate")

C5_FrameErrorHalts ==
  /\ FrameThrew(st) => (st.frames = <<>> /\ Count(st.trace, "error:animate") = 1)
  /\ halted => st.frames = <<>>

StartCalled == kind \in BaseKinds /\ st.trace = <<Ev("start")>>
SetupCompleted == HasEv(st.trace, "setupLevel") /\ ~HasEv(st.trace, "error:initializeLevel")
Running == kind \in BaseKinds /\ SetupCompleted /\ LoopRunning(st)
RendererNotReady == HasEv(st.trace, "error:renderer")
InitFailed ==
  \/ HasEv(st.trace, "error:renderer")
  \/ HasEv(st.trace, "error:initializeLevel")
  \/ (Ran(st, "initializeLevel:resume") /\ FrameThrew(st))
FramePerformsUpdateAndRender ==
  (kind \in BaseKinds /\ Ran(st', "animate")) =>
    /\ HasEv(st'.trace, "world.update")
    /\ (st'.rendererReady /\ ~HasEv(st'.trace, "error:animate")) => HasEv(st'.trace, "render")

C7_CleanupTerminal ==
  (kind \in BaseKinds /\ cleaned) =>
    /\ st.frames = <<>>
    /\ ~HasEv(st.trace, "setupLevel")
    /\ ~HasEv(st.trace, "world.update")

NothingCreated ==
  /\ NoActiveHandles(st)
  /\ st.listeners = {}
  /\ st.entities = 0
  /\ st.domNodes = 0
  /\ st.busListeners = 0

\* C9 (as stated): a level constructed in a world lacking one of Scene,
\* Render or Window throws, never starts, and has created no timer, listener,
\* entity or DOM node.
C9_MissingSystemThrows ==
  ({"SceneSystem", "RenderSystem", "WindowSystem"} \subseteq systems \/ instance = "none")
    \/ (instance = "threw" /\ HasEv(st.trace, "throw") /\ NothingCreated)

\* C9 (amended): the required systems are Scene, Render and Window for the
\* BaseLevel-derived levels and Scene and GameUIRegistrationSystem for
\* MenuTestLevel; a construction lacking one of them throws, the level never
\* starts, and nothing was created.
C9_MissingRequiredSystemThrows ==
  LET required == IF kind \in BaseKinds
                  THEN {"SceneSystem", "RenderSystem", "WindowSystem"}
                  ELSE {"SceneSystem", "GameUIRegistrationSystem"}
  IN (required \subseteq systems \/ instance = "none")
       \/ (instance = "threw" /\ HasEv(st.trace, "throw") /\ NothingCreated)

C9_Witness == instance = "threw" /\ HasEv(st.trace, "throw") /\ kind \in BaseKinds

InitFailureLogged(s) ==
  Count(s.trace, "error:initializeLevel") + Count(s.trace, "error:renderer") = 1
InspectionRejected(s) == HasEv(s.trace, "error:inspect")

\* C10 (as stated): a failed delayed initialization (renderer not ready,
\* reinitializeRenderer or setupLevel throwing, animation inspection
\* rejecting) is caught and logged, nothing propagates, and the level has no
\* running frame loop.
C10_InitFailureNoLoop ==
  (HasEv(st.trace, "error:initializeLevel") \/ HasEv(st.trace, "error:renderer")
     \/ InspectionRejected(st)) =>
    /\ ~HasEv(st.trace, "uncaught")
    /\ st.frames = <<>>

\* C10 (amended): a failed delayed initialization is caught and logged once,
\* nothing propagates, and it starts no frame loop: the pending frame requests
\* and animationFrameId stay as they were.  A rejected animation inspection is
\* caught and logged too, and leaves the frame loop as it was.
C10_InitFailureStartsNoLoop ==
  [][/\ (HasEv(st'.trace, "error:initializeLevel") \/ HasEv(st'.trace, "error:renderer")) =>
          /\ Ran(st', "initializeLevel:resume")
          /\ InitFailureLogged(st')
          /\ ~HasEv(st'.trace, "uncaught")
          /\ ~HasEv(st'.trace, "animate")
          /\ st'.frames = st.frames
          /\ st'.animationFrameId = st.animationFrameId
     /\ InspectionRejected(st') =>
          /\ Count(st'.trace, "error:inspect") = 1
          /\ ~HasEv(st'.trace, "uncaught")
          /\ st'.frames = st.frames
          /\ st'.animationFrameId = st.animationFrameId]_vars

C10_Witness ==
  /\ Ran(st, "initializeLevel:resume")
  /\ HasEv(st.trace, "error:initializeLevel")
  /\ HasEv(st.trace, "setupLevel")
  /\ st.frames = <<>>

----------------------------------------------------------------------------
\* SimpleLevel (levels/SimpleLevel.ts) and MainMenuLevel: the DOM nodes they
\* append and the entities they add to the world, and what cleanup() removes.

MaxUiBuilds == 3        \* bound: scene set-ups plus context restorations

LevelParked ==
  /\ kind = Unused /\ systems = Unused /\ instance = Unused /\ st = Unused
  /\ cleaned = Unused /\ builds = Unused /\ halted = Unused

UiOnly ==
  /\ mgr = Unused /\ reg = Unused /\ spin = Unused /\ imp = Unused /\ col = Unused /\ pf = Unused
  /\ cfg = Unused /\ tpl = Unused /\ loop = Unused /\ bus = Unused /\ dbg = Unused /\ msr = Unused
MgrOnly ==
  /\ ui = Unused /\ reg = Unused /\ spin = Unused /\ imp = Unused /\ col = Unused /\ pf = Unused
  /\ cfg = Unused /\ tpl = Unused /\ loop = Unused /\ bus = Unused /\ dbg = Unused /\ msr = Unused
RegOnly ==
  /\ ui = Unused /\ mgr = Unused /\ spin = Unused /\ imp = Unused /\ col = Unused /\ pf = Unused
  /\ cfg = Unused /\ tpl = Unused /\ loop = Unused /\ bus = Unused /\ dbg = Unused /\ msr = Unused
SpinOnly ==
  /\ ui = Unused /\ mgr = Unused /\ reg = Unused /\ imp = Unused /\ col = Unused /\ pf = Unused
  /\ cfg = Unused /\ tpl = Unused /\ loop = Unused /\ bus = Unused /\ dbg = Unused /\ msr = Unused
ImpOnly ==
  /\ ui = Unused /\ mgr = Unused /\ reg = Unused /\ spin = Unused /\ col = Unused /\ pf = Unused
  /\ cfg = Unused /\ tpl = Unused /\ loop = Unused /\ bus = Unused /\ dbg = Unused /\ msr = Unused
ColOnly ==
  /\ ui = Unused /\ mgr = Unused /\ reg = Unused /\ spin = Unused /\ imp = Unused /\ pf = Unused
  /\ cfg = Unused /\ tpl = Unused /\ loop = Unused /\ bus = Unused /\ dbg = Unused /\ msr = Unused
PfOnly ==
  /\ ui = Unused /\ mgr = Unused /\ reg = Unused /\ spin = Unused /\ imp = Unused /\ col = Unused
  /\ cfg = Unused /\ tpl = Unused /\ loop = Unused /\ bus = Unused /\ dbg = Unused /\ msr = Unused

CfgOnly ==
  /\ ui = Unused /\ mgr = Unused /\ reg = Unused /\ spin = Unused /\ imp = Unused /\ col = Unused /\ pf = Unused
  /\ tpl = Unused /\ loop = Unused /\ bus = Unused /\ dbg = Unused /\ msr = Unused
TplOnly ==
  /\ ui = Unused /\ mgr = Unused /\ reg = Unused /\ spin = Unused /\ imp = Unused /\ col = Unused /\ pf = Unused
  /\ cfg = Unused /\ loop = Unused /\ bus = Unused /\ dbg = Unused /\ msr = Unused
LoopOnly ==
  /\ ui = Unused /\ mgr = Unused /\ reg = Unused /\ spin = Unused /\ imp = Unused /\ col = Unused /\ pf = Unused
  /\ cfg = Unused /\ tpl = Unused /\ bus = Unused /\ dbg = Unused /\ msr = Unused
BusOnly ==
  /\ ui = Unused /\ mgr = Unused /\ reg = Unused /\ spin = Unused /\ imp = Unused /\ col = Unused /\ pf = Unused
  /\ cfg = Unused /\ tpl = Unused /\ loop = Unused /\ dbg = Unused /\ msr = Unused
DbgOnly ==
  /\ ui = Unused /\ mgr = Unused /\ reg = Unused /\ spin = Unused /\ imp = Unused /\ col = Unused /\ pf = Unused
  /\ cfg = Unused /\ tpl = Unused /\ loop = Unused /\ bus = Unused /\ msr = Unused
MsrOnly ==
  /\ ui = Unused /\ mgr = Unused /\ reg = Unused /\ spin = Unused /\ imp = Unused /\ col = Unused /\ pf = Unused
  /\ cfg = Unused /\ tpl = Unused /\ loop = Unused /\ bus = Unused /\ dbg = Unused

UiLevels == {"SimpleLevel", "MainMenuLevel"}
PrefabNames == {"GroundPlane", "SpinningCube", "BackButton"}

InitUi(l) ==
  [level |-> l, uiDivs |-> 0, menuDivs |-> 0, styles |-> 0, entities |-> 0,
   menuEntities |-> 0, uiContainer |-> "null", menuContainer |-> "null",
   busListeners |-> 0, listening |-> FALSE, builds |-> 0, trace |-> <<>>]

addStyles(u) == [Log(u, "addStyles") EXCEPT !.styles = @ + 1]

\* SimpleLevel.setupUI: the div is appended but kept in a local constant only;
\* the field uiContainer is never assigned.
setupUI(u, made) ==
  LET u1 == [Log(u, "setupUI") EXCEPT !.uiDivs = @ + 1]
  IN IF "BackButton" \in made
     THEN addStyles([u1 EXCEPT !.entities = @ + 1])
     ELSE Log(u1, "error:backButton")

\* setupCamera(); setupLighting(); addGroundPlane(); addSpinningCube(); setupUI()
simpleSetup(u, made) ==
  LET u1 == [Log(u, "setupCamera") EXCEPT !.entities = @ + 1]
      u2 == [u1 EXCEPT !.entities = @ + Cardinality(made \cap {"GroundPlane", "SpinningCube"})]
  IN setupUI(u2, made)

\* MainMenuLevel.setupMenu: container, four buttons with one entity each,
\* ui_selection_changed listener, styles.
setupMenu(u) ==
  LET u1 == [Log(u, "setupMenu") EXCEPT !.menuDivs = @ + 1, !.menuContainer = "node",
                                        !.entities = @ + 4, !.menuEntities = @ + 4,
                                        !.busListeners = @ + 1]
  IN addStyles(u1)

\* SimpleLevel.cleanup after stop(): removes this.uiContainer if it is set.
simpleCleanup(u) ==
  LET u1 == [Log(Log(u, "cleanup"), "stop") EXCEPT !.listening = FALSE]
  IN IF u1.uiContainer # "null" /\ u1.uiDivs > 0
     THEN [Log(u1, "removeChild") EXCEPT !.uiDivs = @ - 1, !.uiContainer = "null"]
     ELSE u1

\* MainMenuLevel.cleanupLevelSpecifics after stop(): off() is given a new
\* bound function, so no bus listener is removed.
menuCleanup(u) ==
  LET u1 == [Log(Log(u, "cleanup"), "stop") EXCEPT !.listening = FALSE]
      u2 == [Log(u1, "cleanupLevelSpecifics") EXCEPT !.entities = @ - u1.menuEntities,
                                                      !.menuEntities = 0]
  IN IF u2.menuContainer # "null" /\ u2.menuDivs > 0
     THEN [Log(u2, "removeChild") EXCEPT !.menuDivs = @ - 1, !.menuContainer = "null"]
     ELSE u2

\* SimpleLevel.handleContextRestored: setupCamera() adds another camera entity;
\* MainMenuLevel.recreateSceneAfterContextRestore is empty.
uiContextRestored(u) ==
  LET u1 == Log(u, "handleContextRestored")
  IN IF u1.level = "SimpleLevel"
     THEN [Log(u1, "setupCamera") EXCEPT !.entities = @ + 1]
     ELSE u1

UiInit == LevelParked /\ UiOnly /\ ui \in {InitUi(l) : l \in UiLevels}

UiSetup(made) ==
  /\ ui.builds < MaxUiBuilds
  /\ ui' = [(IF ui.level = "SimpleLevel" THEN simpleSetup(Begin(ui), made) ELSE setupMenu(Begin(ui)))
              EXCEPT !.builds = @ + 1, !.listening = TRUE]
  /\ UNCHANGED <<levelVars, mgr, reg, spin, imp, col, pf,
               cfg, tpl, loop, bus, dbg, msr>>

UiContextRestored ==
  /\ ui.listening
  /\ ui.builds < MaxUiBuilds
  /\ ui' = [uiContextRestored(Begin(ui)) EXCEPT !.builds = @ + 1]
  /\ UNCHANGED <<levelVars, mgr, reg, spin, imp, col, pf,
               cfg, tpl, loop, bus, dbg, msr>>

UiCleanup ==
  /\ ui' = IF ui.level = "SimpleLevel" THEN simpleCleanup(Begin(ui)) ELSE menuCleanup(Begin(ui))
  /\ UNCHANGED <<levelVars, mgr, reg, spin, imp, col, pf,
               cfg, tpl, loop, bus, dbg, msr>>

\* stop() alone detaches the context listeners and touches nothing else here.
UiStop ==
  /\ ui' = [Log(Begin(ui), "stop") EXCEPT !.listening = FALSE]
  /\ UNCHANGED <<levelVars, mgr, reg, spin, imp, col, pf,
               cfg, tpl, loop, bus, dbg, msr>>

UiNext ==
  \/ \E made \in SUBSET PrefabNames : UiSetup(made)
  \/ UiContextRestored
  \/ UiStop
  \/ UiCleanup

UiSpec == UiInit /\ [][UiNext]_vars

\* C11: after cleanup() of a level every DOM node the level appended (UI
\* container, menu container, style elements) is detached and every entity
\* the level created is out of the world.
C11_CleanupRemovesOwned ==
  Ran(ui, "cleanup") =>
    /\ ui.uiDivs = 0
    /\ ui.menuDivs = 0
    /\ ui.styles = 0
    /\ ui.entities = 0

----------------------------------------------------------------------------
\* Level switching (main.ts registers the level factories; the level service
\* switches by stop() and cleanup() of the current level, then constructs and
\* start()s the next one).  All instances live in the same page, so the timer
\* and the initialization of a level that was switched away still run.

MaxLevels == 2          \* bound: level instances created in one behaviour

SwitchKinds == {"PhysicsCollisionLevel", "AioBotCharacterLevel"}

Current(m) == Len(m)

changeLevel(m, k) ==
  LET old == IF m = <<>> THEN m
             ELSE [m EXCEPT ![Current(m)].s = cleanup(stop(Begin(@)), m[Current(m)].kind)]
  IN Append(old, [kind |-> k, s |-> start(Begin(InitLevel))])

HasFrame(m, i) == m[i].s.frames # <<>>
RunningLevels(m) == {i \in 1..Len(m) : HasFrame(m, i)}

MgrInit == LevelParked /\ MgrOnly /\ mgr = <<>>

MgrSwitch(k) ==
  /\ Len(mgr) < MaxLevels
  /\ mgr' = changeLevel(mgr, k)
  /\ UNCHANGED <<levelVars, ui, reg, spin, imp, col, pf,
               cfg, tpl, loop, bus, dbg, msr>>

MgrStartTimerFires(i) ==
  /\ mgr[i].s.timers["start"] > 0
  /\ mgr' = [mgr EXCEPT ![i].s = initializeLevelBegin(clearTimer(Begin(@), "start"), FALSE)]
  /\ UNCHANGED <<levelVars, ui, reg, spin, imp, col, pf,
               cfg, tpl, loop, bus, dbg, msr>>

MgrInitResume(i, out, fout) ==
  /\ mgr[i].s.awaiting > 0
  /\ mgr' = [mgr EXCEPT ![i].s = initializeLevelResume(Begin(@), mgr[i].kind, out, fout)]
  /\ UNCHANGED <<levelVars, ui, reg, spin, imp, col, pf,
               cfg, tpl, loop, bus, dbg, msr>>

MgrFrame(i, out) ==
  /\ HasFrame(mgr, i)
  /\ mgr' = [mgr EXCEPT ![i].s = animate([Begin(@) EXCEPT !.frames = Tail(@)], out)]
  /\ UNCHANGED <<levelVars, ui, reg, spin, imp, col, pf,
               cfg, tpl, loop, bus, dbg, msr>>

MgrNext ==
  \/ \E k \in SwitchKinds : MgrSwitch(k)
  \/ \E i \in 1..Len(mgr) : MgrStartTimerFires(i)
  \/ \E i \in 1..Len(mgr), out \in InitOutcomes, fout \in FrameOutcomes : MgrInitResume(i, out, fout)
  \/ \E i \in 1..Len(mgr), out \in FrameOutcomes : MgrFrame(i, out)

MgrSpec == MgrInit /\ [][MgrNext]_vars

\* C12: when levels are switched by stop() and cleanup() of the current level
\* followed by start() of the next one, however fast the switches follow each
\* other, at most one level instance has a pending frame request.
C12_OneLevelRunning == Cardinality(RunningLevels(mgr)) <= 1

----------------------------------------------------------------------------
\* Registration systems: the handlers of the entity-created notification.
\* An entity is the set of the component types it carries.  A MeshComponent
\* and a TextComponent always hold their mesh (their constructors build it);
\* SpinningCubeComponent declares no mesh property.

MaxNotifications == 1   \* bound: notifications handled in one behaviour

ComponentKinds == {"SPINNING_CUBE", "MENU_ITEM", "TEXT", "MESH", "TRANSFORM"}
RegistrationSystems ==
  {"GameMeshRegistrationSystem", "MeshRegistrationSystem", "GameUIRegistrationSystem"}

InitReg == [system |-> "none", entity |-> {}, n |-> 0, scene |-> <<>>, trace |-> <<>>]

addToScene(r, x) ==
  [Log(r, "addToScene") EXCEPT !.scene = Append(@, [entity |-> r.n, renderable |-> x])]

\* super.handleEntityCreated(entity) of the core mesh / UI registration
\* systems: engine code; it may or may not add the entity's mesh.
coreMeshHandler(r, coreAdds) ==
  LET r1 == Log(r, "core:mesh")
  IN IF coreAdds /\ "MESH" \in r.entity THEN addToScene(r1, "mesh") ELSE r1

coreUIHandler(r, coreAdds) ==
  LET r1 == Log(r, "core:ui")
  IN IF coreAdds /\ "MESH" \in r.entity THEN addToScene(r1, "mesh") ELSE r1

\* Variant: the mesh is added without looking whether there is one.
handleGameSpecificMeshUnchecked(r) == addToScene(Log(r, "game:mesh"), "mesh")

handleGameSpecificMesh(r) ==
  LET r1 == Log(r, "game:mesh")
  IN IF "MESH" \notin r.entity THEN Log(r1, "warn") ELSE addToScene(r1, "mesh")

gameMeshHandleEntityCreated(r, coreAdds) ==
  IF "SPINNING_CUBE" \in r.entity THEN handleGameSpecificMesh(r) ELSE coreMeshHandler(r, coreAdds)

handleGameUIEntity(r) ==
  LET r1 == Log(r, "game:ui")
  IN IF "TRANSFORM" \notin r.entity THEN Log(r1, "warn")
     ELSE LET r2 == IF "MESH" \in r.entity THEN addToScene(r1, "mesh") ELSE r1
          IN IF "TEXT" \in r.entity THEN addToScene(r2, "text") ELSE r2

gameUIHandleEntityCreated(r, coreAdds) ==
  IF "MENU_ITEM" \in r.entity \/ "TEXT" \in r.entity
  THEN handleGameUIEntity(r)
  ELSE coreUIHandler(r, coreAdds)

\* MeshRegistrationSystem.handleEntityCreated: check 1 (game-specific) does
\* not return, check 2 (core MeshComponent) always follows.
meshRegistrationHandleEntityCreated(r) ==
  LET r1 == IF "SPINNING_CUBE" \in r.entity THEN Log(Log(r, "game:mesh"), "warn") ELSE r
      r2 == Log(r1, "core:mesh")
  IN IF "MESH" \in r2.entity THEN addToScene(r2, "mesh") ELSE r2

handleEntityCreated(r, coreAdds) ==
  CASE r.system = "GameMeshRegistrationSystem" -> gameMeshHandleEntityCreated(r, coreAdds)
    [] r.system = "GameUIRegistrationSystem" -> gameUIHandleEntityCreated(r, coreAdds)
    [] OTHER -> meshRegistrationHandleEntityCreated(r)

RegInit == LevelParked /\ RegOnly /\ reg = InitReg

RegNotify(sys, e, coreAdds) ==
  /\ reg.n < MaxNotifications
  /\ reg' = handleEntityCreated(
              Log([Begin(reg) EXCEPT !.system = sys, !.entity = e, !.n = @ + 1],
                  "handleEntityCreated"),
              coreAdds)
  /\ UNCHANGED <<levelVars, ui, mgr, spin, imp, col, pf,
               cfg, tpl, loop, bus, dbg, msr>>

RegNext ==
  \E sys \in RegistrationSystems, e \in SUBSET ComponentKinds, coreAdds \in BOOLEAN :
    RegNotify(sys, e, coreAdds)

RegSpec == RegInit /\ [][RegNext]_vars

GameTagged(r) ==
  IF r.system = "GameUIRegistrationSystem"
  THEN "MENU_ITEM" \in r.entity \/ "TEXT" \in r.entity
  ELSE "SPINNING_CUBE" \in r.entity
GameHandlings(r) == Count(r.trace, "game:mesh") + Count(r.trace, "game:ui")
CoreHandlings(r) == Count(r.trace, "core:mesh") + Count(r.trace, "core:ui")
AddedFor(r) == {i \in 1..Len(r.scene) : r.scene[i].entity = r.n}

\* C13: for each entity-created notification exactly one handler processes
\* the entity, the game-specific one if the entity carries a game-specific
\* tag and the core default one otherwise, and no renderable of the entity is
\* added to the scene graph more than once.
C13_OneHandlerPerEntity ==
  Ran(reg, "handleEntityCreated") =>
    /\ GameHandlings(reg) + CoreHandlings(reg) = 1
    /\ GameTagged(reg) => GameHandlings(reg) = 1
    /\ ~GameTagged(reg) => CoreHandlings(reg) = 1
    /\ \A i, j \in AddedFor(reg) : reg.scene[i].renderable = reg.scene[j].renderable => i = j

RenderableMissing(r) ==
  \/ r.system = "GameMeshRegistrationSystem" /\ "SPINNING_CUBE" \in r.entity /\ "MESH" \notin r.entity
  \/ /\ r.system = "GameUIRegistrationSystem"
     /\ "MENU_ITEM" \in r.entity \/ "TEXT" \in r.entity
     /\ "TRANSFORM" \notin r.entity

----------------------------------------------------------------------------
\* SpinningSystem: the per-frame rotation update.  Angles, speeds and frame
\* times are integers in fixed units, so the arithmetic is exact.

MaxSpinUpdates == 3     \* bound: calls of SpinningSystem.update in one behaviour
NumEntities == 2        \* bound: entities in the world
TwoPi == 6

SpeedVectors == {<<1, 0, 0>>, <<2, -1, 1>>}
InitialRotations == {<<0, 0, 0>>, <<1, 5, -2>>}
DeltaTimes == {1, 2}
Axes == 1..3

\* An entity of the world: which of the two components it carries and their
\* data (rotationSpeed of SpinningCubeComponent; position, rotation and scale
\* of TransformComponent).
SpinEntities ==
  [spinningCube : BOOLEAN, transform : BOOLEAN, rotationSpeed : SpeedVectors,
   rotation : InitialRotations, position : {<<0, 1, 0>>}, scale : {<<1, 1, 1>>}]

\* world.queryComponents([SPINNING_CUBE, TRANSFORM])
MatchesSpinningCubeOnly(e) == e.spinningCube

Matches(e) == e.spinningCube /\ e.transform

\* Variant of the loop body with the commented-out normalisation enabled.
spinEntityNormalized(e, deltaTime) ==
  [e EXCEPT !.rotation =
     [a \in Axes |-> ((@[a] + e.rotationSpeed[a] * deltaTime) + TwoPi) % TwoPi]]

spinEntity(e, deltaTime) ==
  [e EXCEPT !.rotation = [a \in Axes |-> @[a] + e.rotationSpeed[a] * deltaTime]]

spinningUpdate(s, deltaTime) ==
  [Log(Begin(s), "update") EXCEPT
     !.entities = [i \in DOMAIN @ |->
                     IF Matches(@[i]) THEN spinEntity(@[i], deltaTime) ELSE @[i]],
     !.n = @ + 1]

SpinInit ==
  /\ LevelParked /\ SpinOnly
  /\ \E es \in [1..NumEntities -> SpinEntities], dt \in DeltaTimes :
       spin = [entities |-> es, initial |-> es, dt |-> dt, n |-> 0, trace |-> <<>>]

SpinUpdate ==
  /\ spin.n < MaxSpinUpdates
  /\ spin' = spinningUpdate(spin, spin.dt)
  /\ UNCHANGED <<levelVars, ui, mgr, reg, imp, col, pf,
               cfg, tpl, loop, bus, dbg, msr>>

SpinNext == SpinUpdate

SpinSpec == SpinInit /\ [][SpinNext]_vars

\* C15: for every entity carrying both the spinning-cube component and a
\* transform, after N calls of update with frame time dt each rotation angle
\* equals its initial value plus rotationSpeed_axis * dt * N; the angle is not
\* wrapped into [0, 2*pi).
C15_RotationLinear ==
  \A i \in DOMAIN spin.entities :
    Matches(spin.initial[i]) =>
      \A a \in Axes :
        spin.entities[i].rotation[a] =
          spin.initial[i].rotation[a] + spin.initial[i].rotationSpeed[a] * spin.dt * spin.n

C15_Witness ==
  /\ spin.n >= 2
  /\ \E i \in DOMAIN spin.entities :
       /\ Matches(spin.initial[i])
       /\ spin.entities[i].rotation[1] > TwoPi
       /\ spin.entities[i].rotation[2] < 0

\* C16: update changes only the rotation angles of matching entities: their
\* position, scale and rotationSpeed stay as they were, every entity lacking
\* the spinning-cube component or the transform is left entirely unchanged,
\* and no error is raised.
C16_OnlyRotationChanges ==
  /\ ~HasEv(spin.trace, "uncaught")
  /\ \A i \in DOMAIN spin.entities :
       /\ spin.entities[i].position = spin.initial[i].position
       /\ spin.entities[i].scale = spin.initial[i].scale
       /\ spin.entities[i].rotationSpeed = spin.initial[i].rotationSpeed
       /\ spin.entities[i].spinningCube = spin.initial[i].spinningCube
       /\ spin.entities[i].transform = spin.initial[i].transform
       /\ ~(spin.initial[i].spinningCube /\ spin.initial[i].transform) =>
            spin.entities[i] = spin.initial[i]

C16_Witness ==
  /\ Ran(spin, "update")
  /\ \E i, j \in DOMAIN spin.entities :
       /\ Matches(spin.initial[i])
       /\ spin.entities[i].rotation # spin.initial[i].rotation
       /\ spin.initial[j].spinningCube /\ ~spin.initial[j].transform

----------------------------------------------------------------------------
\* applyPeriodicImpulse of the physics levels.  Heights are in tenths of a
\* unit.  The listener of the check-entity event belongs to the engine: it may call
\* the callback with true or false before emit returns, call it later, or
\* never call it.

MaxImpulseRounds == 2   \* bound: invocations of applyPeriodicImpulse
NumBodies == 2          \* bound: entities in the world
GroundLevel == 5

ImpulseLevels == {"PhysicsCollisionLevel", "PhysicsOverlapLevel"}
CheckResponses == {"true", "false", "later", "none"}
BodyKinds ==
  {[transform |-> TRUE, rigidBody |-> TRUE, mesh |-> TRUE, bodyType |-> "dynamic", y |-> 30],
   [transform |-> TRUE, rigidBody |-> TRUE, mesh |-> FALSE, bodyType |-> "dynamic", y |-> 30],
   [transform |-> TRUE, rigidBody |-> TRUE, mesh |-> TRUE, bodyType |-> "dynamic", y |-> 5],
   [transform |-> TRUE, rigidBody |-> TRUE, mesh |-> TRUE, bodyType |-> "static", y |-> 30],
   [transform |-> TRUE, rigidBody |-> FALSE, mesh |-> TRUE, bodyType |-> "none", y |-> 30]}

EvFor(e, i) == [ev |-> e, arg |-> i]
LogFor(s, e, i) == [s EXCEPT !.trace = Append(@, EvFor(e, i))]

\* world.queryComponents([...]) of the two levels
Queried(level, b) ==
  b.transform /\ b.rigidBody /\ (level = "PhysicsOverlapLevel" => b.mesh)

isDynamicAndAboveGround(b) ==
  b.transform /\ b.y > GroundLevel /\ b.rigidBody /\ b.bodyType = "dynamic"

\* eventBus.emit(CHECK_ENTITY, {entityId, callback}): the events of one emit
\* and the value of hasRegisteredBody when it has returned.
emitCheckEntity(s, i, response) ==
  LET s1 == LogFor(s, "emit:physics_check_entity", i)
      s2 == IF response \in {"true", "false"} THEN LogFor(s1, "callback:" \o response, i) ELSE s1
      s3 == LogFor(s2, "returned:physics_check_entity", i)
  IN [s3 EXCEPT !.hasRegisteredBody = (response = "true"),
                !.later = IF response = "later" THEN @ \cup {i} ELSE @]

\* Variant of the filter that ignores the listener's answer.
keepsUnverified(s, b) == isDynamicAndAboveGround(b)

keeps(s, b) == isDynamicAndAboveGround(b) /\ s.hasRegisteredBody

\* The filter callback for entity i.
filterEntity(s, i, response) ==
  IF ~Queried(s.level, s.bodies[i]) THEN s
  ELSE IF ~isDynamicAndAboveGround(s.bodies[i]) THEN s
  ELSE LET s1 == emitCheckEntity(s, i, response)
       IN IF keeps(s1, s.bodies[i]) THEN [s1 EXCEPT !.dynamicBoxes = Append(@, i)] ELSE s1

RECURSIVE filterFrom(_, _, _)
filterFrom(s, i, responses) ==
  IF i > Len(s.bodies) THEN s
  ELSE filterFrom(filterEntity(s, i, responses[i]), i + 1, responses)

RECURSIVE impulseEach(_, _)
impulseEach(s, boxes) ==
  IF boxes = <<>> THEN s
  ELSE impulseEach(LogFor(s, "emit:physics_apply_impulse", Head(boxes)), Tail(boxes))

applyPeriodicImpulse(s, responses) ==
  LET s0 == [Log(Begin(s), "applyPeriodicImpulse") EXCEPT
               !.dynamicBoxes = <<>>, !.later = {}, !.hasRegisteredBody = FALSE, !.n = @ + 1]
  IN IF ~s.physicsSystem THEN Log(s0, "warn")
     ELSE LET s1 == filterFrom(s0, 1, responses)
          IN impulseEach(s1, s1.dynamicBoxes)

ImpInit ==
  /\ LevelParked /\ ImpOnly
  /\ \E l \in ImpulseLevels, ps \in BOOLEAN, bs \in [1..NumBodies -> BodyKinds] :
       imp = [level |-> l, physicsSystem |-> ps, bodies |-> bs, dynamicBoxes |-> <<>>,
              later |-> {}, hasRegisteredBody |-> FALSE, n |-> 0, trace |-> <<>>]

\* The interval timer fires: one whole invocation.
ImpTick(responses) ==
  /\ imp.n < MaxImpulseRounds
  /\ imp' = applyPeriodicImpulse(imp, responses)
  /\ UNCHANGED <<levelVars, ui, mgr, reg, spin, col, pf,
               cfg, tpl, loop, bus, dbg, msr>>

\* A listener answers a check after the emit has returned: the callback sets
\* the variable of a filter call that is over.
ImpLateCallback(i, exists) ==
  /\ i \in imp.later
  /\ imp' = [LogFor(imp, IF exists THEN "callback:true" ELSE "callback:false", i)
               EXCEPT !.later = @ \ {i}]
  /\ UNCHANGED <<levelVars, ui, mgr, reg, spin, col, pf,
               cfg, tpl, loop, bus, dbg, msr>>

ImpNext ==
  \/ \E responses \in [1..NumBodies -> CheckResponses] : ImpTick(responses)
  \/ \E i \in 1..NumBodies, exists \in BOOLEAN : ImpLateCallback(i, exists)

ImpSpec == ImpInit /\ [][ImpNext]_vars

Position(tr, e, i) == {k \in 1..Len(tr) : tr[k] = EvFor(e, i)}
ConfirmedDuringEmit(tr, i) ==
  \E a \in Position(tr, "emit:physics_check_entity", i),
     c \in Position(tr, "callback:true", i),
     r \in Position(tr, "returned:physics_check_entity", i) : a < c /\ c < r
DynamicAboveGround(b) == b.bodyType = "dynamic" /\ b.rigidBody /\ b.transform /\ b.y > GroundLevel

\* C17: within one invocation of applyPeriodicImpulse an apply-impulse event
\* is emitted for an entity only if the entity is a dynamic body with
\* transform y above 0.5 and the check-entity callback was called with true between
\* the emit of the check-entity event and its return; a callback called with false,
\* later, or never leaves the entity without impulse.
C17_ImpulseOnlyIfConfirmed ==
  \A i \in 1..Len(imp.bodies) :
    Position(imp.trace, "emit:physics_apply_impulse", i) # {} =>
      /\ DynamicAboveGround(imp.bodies[i])
      /\ ConfirmedDuringEmit(imp.trace, i)
      /\ Cardinality(Position(imp.trace, "emit:physics_apply_impulse", i)) = 1

C17_Witness ==
  /\ Ran(imp, "applyPeriodicImpulse")
  /\ \E i, j \in 1..Len(imp.bodies) :
       /\ Position(imp.trace, "emit:physics_apply_impulse", i) # {}
       /\ DynamicAboveGround(imp.bodies[j])
       /\ Position(imp.trace, "emit:physics_check_entity", j) # {}
       /\ Position(imp.trace, "emit:physics_apply_impulse", j) = {}
       /\ \E k \in Position(imp.trace, "callback:true", j) :
            \A r \in Position(imp.trace, "returned:physics_check_entity", j) : r < k

----------------------------------------------------------------------------
\* The overlap handlers of PhysicsOverlapLevel.  Entity 0 is the sensor,
\* entities 1..NumTargets are boxes, the id NumTargets + 1 is not in the
\* world.  Events come from the physics engine and from the level's own test
\* emission (start five seconds after set-up, end three seconds later), so a
\* start may arrive for a pair that is already overlapping.

MaxCollisionEvents == 3 \* bound: collision events handled in one behaviour
NumTargets == 1         \* bound: boxes in the world
SensorId == 0

Red == "ff0000"
BoxColors == {"ff6347", Red, "00ff00"}
NoColor == "none"
WorldIds == 0..NumTargets
EventIds == 0..(NumTargets + 1)

targetOf(a, b) == IF a = SensorId THEN b ELSE a

\* Variant: the cached colour is overwritten by every start.
handleCollisionStartAlwaysCaches(c, a, b) ==
  LET c0 == Log(Begin(c), "handleCollisionStart")
      t == targetOf(a, b)
  IN IF ~(a = SensorId \/ b = SensorId) THEN Log(c0, "warn")
     ELSE IF t \notin WorldIds THEN Log(c0, "warn")
     ELSE IF ~c.mesh[t] THEN Log(c0, "warn")
     ELSE [Log(c0, "color.set") EXCEPT !.originalColor[t] = c0.color[t], !.color[t] = Red]

handleCollisionStart(c, a, b) ==
  LET c0 == Log(Begin(c), "handleCollisionStart")
      t == targetOf(a, b)
  IN IF ~(a = SensorId \/ b = SensorId) THEN Log(c0, "warn")
     ELSE IF t \notin WorldIds THEN Log(c0, "warn")
     ELSE IF ~c.mesh[t] THEN Log(c0, "warn")
     ELSE LET c1 == IF c0.originalColor[t] = NoColor
                    THEN [c0 EXCEPT !.originalColor[t] = c0.color[t]]
                    ELSE c0
          IN [Log(c1, "color.set") EXCEPT !.color[t] = Red]

handleCollisionEnd(c, a, b) ==
  LET c0 == Log(Begin(c), "handleCollisionEnd")
      t == targetOf(a, b)
  IN IF ~(a = SensorId \/ b = SensorId) THEN Log(c0, "warn")
     ELSE IF t \notin WorldIds THEN Log(c0, "warn")
     ELSE IF ~c.mesh[t] THEN Log(c0, "warn")
     ELSE IF c0.originalColor[t] = NoColor THEN Log(c0, "warn")
     ELSE [Log(c0, "color.copy") EXCEPT !.color[t] = c0.originalColor[t]]

\* History kept beside the program state: the colours before the handler that
\* ran last, and for each pair the colours seen before its unmatched starts.
Pairs == {<<a, b>> : a \in EventIds, b \in EventIds}
NoteStart(c, a, b, before) ==
  [c EXCEPT !.prev = before, !.last = <<a, b>>, !.matched = NoColor, !.n = @ + 1,
            !.open[<<a, b>>] = Append(@, IF targetOf(a, b) \in WorldIds
                                            THEN before[targetOf(a, b)] ELSE NoColor)]
NoteEnd(c, a, b, before, opened) ==
  [c EXCEPT !.prev = before, !.last = <<a, b>>, !.n = @ + 1,
            !.matched = IF opened = <<>> THEN NoColor ELSE opened[Len(opened)],
            !.open[<<a, b>>] = IF opened = <<>> THEN <<>> ELSE SubSeq(opened, 1, Len(opened) - 1)]

ColInit ==
  /\ LevelParked /\ ColOnly
  /\ \E colors \in [WorldIds -> BoxColors], mesh \in [WorldIds -> BOOLEAN] :
       /\ mesh[SensorId]
       /\ col = [color |-> colors, mesh |-> mesh,
                 originalColor |-> [t \in WorldIds |-> NoColor],
                 prev |-> colors, last |-> <<SensorId, SensorId>>, matched |-> NoColor,
                 open |-> [p \in Pairs |-> <<>>], n |-> 0, trace |-> <<>>]

ColStart(a, b) ==
  /\ col.n < MaxCollisionEvents
  /\ col' = NoteStart(handleCollisionStart(col, a, b), a, b, col.color)
  /\ UNCHANGED <<levelVars, ui, mgr, reg, spin, imp, pf,
               cfg, tpl, loop, bus, dbg, msr>>

ColEnd(a, b) ==
  /\ col.n < MaxCollisionEvents
  /\ col' = NoteEnd(handleCollisionEnd(col, a, b), a, b, col.color, col.open[<<a, b>>])
  /\ UNCHANGED <<levelVars, ui, mgr, reg, spin, imp, pf,
               cfg, tpl, loop, bus, dbg, msr>>

ColNext ==
  \/ \E a, b \in EventIds : ColStart(a, b)
  \/ \E a, b \in EventIds : ColEnd(a, b)

ColSpec == ColInit /\ [][ColNext]_vars

EndedTarget == targetOf(col.last[1], col.last[2])
SensorPair == (col.last[1] = SensorId \/ col.last[2] = SensorId) /\ EndedTarget \in 1..NumTargets

\* C18: a collision-start for a (sensor, target) pair followed later by the
\* matching collision-end leaves the target's material colour equal to the
\* colour it had before that collision-start; a collision-end for a target
\* with no cached colour changes no colour and does not throw.
C18_EndRestoresColor ==
  (Ran(col, "handleCollisionEnd") /\ SensorPair /\ col.mesh[EndedTarget]) =>
    /\ ~HasEv(col.trace, "uncaught")
    /\ col.matched # NoColor => col.color[EndedTarget] = col.matched
    /\ col.originalColor[EndedTarget] = NoColor => col.color = col.prev

----------------------------------------------------------------------------
\* Prefab construction and registration.  A prefab is represented by its
\* name; the registry is keyed by name.  Date.now() is the millisecond clock:
\* any number of calls may happen within one millisecond.

MaxPrefabCalls == 3     \* bound: construction calls in one behaviour
MaxClock == 2           \* bound: milliseconds that pass in one behaviour

MenuTexts == {"Simple Level", "Physics Demo"}
AiBotName(now) == <<"AiBot", now>>
BackButtonName == <<"BackButton", 0>>
MenuItemName(text) == <<"MenuItem", text>>

registerPrefab(p, name) == [Log(p, "registerPrefab") EXCEPT !.registry = @ \cup {name}]

\* Variant of the constructor that also registers what it builds.
createAiBotPrefabRegistering(p) ==
  registerPrefab([Log(p, "createAiBotPrefab") EXCEPT
                    !.made = Append(@, AiBotName(p.clock)), !.calls = @ + 1],
                 AiBotName(p.clock))

createAiBotPrefab(p) ==
  [Log(p, "createAiBotPrefab") EXCEPT !.made = Append(@, AiBotName(p.clock)), !.calls = @ + 1]

createBackButtonPrefab(p) ==
  [Log(p, "createBackButtonPrefab") EXCEPT !.made = Append(@, BackButtonName), !.calls = @ + 1]

createMenuItemPrefab(p, text) ==
  [Log(p, "createMenuItemPrefab") EXCEPT !.made = Append(@, MenuItemName(text)), !.calls = @ + 1]

registerAiBotPrefab(p) ==
  LET p1 == createAiBotPrefab(Log(p, "registerAiBotPrefab"))
  IN registerPrefab(p1, p1.made[Len(p1.made)])

\* AioBotCharacterLevel.addAiBot: create, register, instantiate.
addAiBot(p) ==
  LET p1 == createAiBotPrefab(Log(p, "addAiBot"))
      p2 == registerPrefab(p1, p1.made[Len(p1.made)])
  IN [Log(p2, "createEntityFromPrefab") EXCEPT !.world = @ + 1]

\* The module registers the default prefab when it is imported.
PfInit ==
  /\ LevelParked /\ PfOnly
  /\ pf = registerAiBotPrefab([clock |-> 0, registry |-> {}, made |-> <<>>, calls |-> 0,
                               world |-> 0, trace |-> <<>>])

PfTick ==
  /\ pf.clock < MaxClock
  /\ pf' = [Log(Begin(pf), "tick") EXCEPT !.clock = @ + 1]
  /\ UNCHANGED <<levelVars, ui, mgr, reg, spin, imp, col,
               cfg, tpl, loop, bus, dbg, msr>>

PfCreateAiBot ==
  /\ pf.calls <= MaxPrefabCalls
  /\ pf' = createAiBotPrefab(Begin(pf))
  /\ UNCHANGED <<levelVars, ui, mgr, reg, spin, imp, col,
               cfg, tpl, loop, bus, dbg, msr>>

PfCreateBackButton ==
  /\ pf.calls <= MaxPrefabCalls
  /\ pf' = createBackButtonPrefab(Begin(pf))
  /\ UNCHANGED <<levelVars, ui, mgr, reg, spin, imp, col,
               cfg, tpl, loop, bus, dbg, msr>>

PfCreateMenuItem(text) ==
  /\ pf.calls <= MaxPrefabCalls
  /\ pf' = createMenuItemPrefab(Begin(pf), text)
  /\ UNCHANGED <<levelVars, ui, mgr, reg, spin, imp, col,
               cfg, tpl, loop, bus, dbg, msr>>

\* prefabRegistry.registerPrefab(prefab) for a prefab built earlier
PfRegister(i) ==
  /\ i \in 1..Len(pf.made)
  /\ pf.made[i] \notin pf.registry
  /\ pf' = registerPrefab(Begin(pf), pf.made[i])
  /\ UNCHANGED <<levelVars, ui, mgr, reg, spin, imp, col,
               cfg, tpl, loop, bus, dbg, msr>>

PfAddAiBot ==
  /\ pf.calls <= MaxPrefabCalls
  /\ pf' = addAiBot(Begin(pf))
  /\ UNCHANGED <<levelVars, ui, mgr, reg, spin, imp, col,
               cfg, tpl, loop, bus, dbg, msr>>

PfNext ==
  \/ PfTick
  \/ PfCreateAiBot
  \/ PfCreateBackButton
  \/ \E text \in MenuTexts : PfCreateMenuItem(text)
  \/ \E i \in 1..(MaxPrefabCalls + 1) : PfRegister(i)
  \/ PfAddAiBot

PfSpec == PfInit /\ [][PfNext]_vars

AiBotCalls(p) == {i \in 1..Len(p.made) : p.made[i][1] = "AiBot"}

\* C19: every call of createAiBotPrefab returns a prefab whose name differs
\* from the name returned by every earlier call.
C19_AiBotNamesUnique ==
  \A i, j \in AiBotCalls(pf) : i # j => pf.made[i] # pf.made[j]

ConstructionCalls == {"createBackButtonPrefab", "createMenuItemPrefab", "createAiBotPrefab"}

\* C20: a call of createBackButtonPrefab, createMenuItemPrefab or
\* createAiBotPrefab leaves the prefab registry and the world unchanged, and
\* the registry changes only in a step that calls registerPrefab.
C20_ConstructionIsPure ==
  [][/\ (pf'.trace # <<>> /\ Head(pf'.trace).ev \in ConstructionCalls) =>
          (pf'.registry = pf.registry /\ pf'.world = pf.world)
     /\ pf'.registry # pf.registry => HasEv(pf'.trace, "registerPrefab")]_vars

C20_Witness ==
  /\ Ran(pf, "createAiBotPrefab")
  /\ pf.made[Len(pf.made)] \notin pf.registry
  /\ \E i \in 1..Len(pf.made) : pf.made[i] = BackButtonName /\ BackButtonName \notin pf.registry

----------------------------------------------------------------------------
\* Prefab construction functions as functions of their configuration.  An
\* omitted field is Missing; numbers and colours are written as the source
\* writes them.

Missing == "missing"

\* a ?? b
Nullish(a, b) == IF a = Missing THEN b ELSE a
\* a || b for strings and objects
Falsy(a) == a = Missing \/ a = ""
OrElse(a, b) == IF Falsy(a) THEN b ELSE a

MenuItemConfigs ==
  [text : {Missing, "", "Options"}, callback : {Missing, "cbA"},
   position : {Missing, "(0,1,0)"}, scale : {Missing, "(2,2,2)"},
   width : {Missing, "6"}, height : {Missing, "2"}, fontSize : {Missing, "32"},
   normalColor : {Missing, "333333"}]
AiBotOptions ==
  [position : {Missing, "(0,1,0)"}, rotation : {Missing, "(0,90,0)"},
   scale : {Missing, "(2,2,2)"}, initialAnimation : {Missing, "", "walk"}]
BackButtonConfigs == [onBackClick : {Missing, "cbA", "cbB"}]

\* Variant: the menu-item data keeps the width and height of the configuration.
MenuItemPrefabRawSize(config) ==
  [name |-> <<"MenuItem", config.text>>,
   transform |-> [position |-> Nullish(config.position, "(0,0,0)"),
                  scale |-> Nullish(config.scale, "(1,1,1)")],
   mesh |-> [geometryArgs |-> <<Nullish(config.width, "4"), Nullish(config.height, "0.8")>>,
             color |-> Nullish(config.normalColor, "1a1a2e")],
   text |-> [text |-> config.text, fontSize |-> Nullish(config.fontSize, "64")],
   menuItem |-> [text |-> config.text, callback |-> config.callback,
                 width |-> config.width, height |-> config.height,
                 normalColor |-> config.normalColor]]

\* createMenuItemPrefab(config)
MenuItemPrefab(config) ==
  LET width == Nullish(config.width, "4")
      height == Nullish(config.height, "0.8")
  IN [name |-> <<"MenuItem", config.text>>,
      transform |-> [position |-> Nullish(config.position, "(0,0,0)"),
                     scale |-> Nullish(config.scale, "(1,1,1)")],
      mesh |-> [geometryArgs |-> <<width, height>>,
                color |-> Nullish(config.normalColor, "1a1a2e")],
      text |-> [text |-> config.text, fontSize |-> Nullish(config.fontSize, "64")],
      menuItem |-> [text |-> config.text, callback |-> config.callback,
                    width |-> width, height |-> height,
                    normalColor |-> config.normalColor]]

\* createAiBotPrefab(options)
AiBotPrefab(options) ==
  [name |-> <<"AiBot", "now">>,
   transform |-> [position |-> OrElse(options.position, "(0,0,0)"),
                  rotation |-> OrElse(options.rotation, "(0,0,0)"),
                  scale |-> OrElse(options.scale, "(1,1,1)")],
   animation |-> [autoPlayState |-> OrElse(options.initialAnimation, "idle")]]

\* createBackButtonPrefab(config)
BackButtonPrefab(config) ==
  [name |-> <<"BackButton", "">>,
   event |-> [type |-> "click", handler |-> config.onBackClick]]

\* new MenuItemComponent(data) / new TextComponent(data): the defaults the
\* components add to the data of the prefab.
MenuItemComponentOf(data) ==
  [text |-> data.text, callback |-> data.callback,
   normalColor |-> Nullish(data.normalColor, "1a1a2e"),
   width |-> Nullish(data.width, "4"), height |-> Nullish(data.height, "0.8")]
TextComponentOf(data) ==
  [text |-> data.text, fontSize |-> Nullish(data.fontSize, "48")]

CfgInit ==
  /\ LevelParked /\ CfgOnly
  /\ cfg = [fn |-> "none", config |-> Missing, prefab |-> Missing]

CfgMenuItem(config) ==
  /\ cfg' = [fn |-> "createMenuItemPrefab", config |-> config, prefab |-> MenuItemPrefab(config)]
  /\ UNCHANGED <<levelVars, ui, mgr, reg, spin, imp, col, pf, tpl, loop, bus, dbg, msr>>

CfgAiBot(options) ==
  /\ cfg' = [fn |-> "createAiBotPrefab", config |-> options, prefab |-> AiBotPrefab(options)]
  /\ UNCHANGED <<levelVars, ui, mgr, reg, spin, imp, col, pf, tpl, loop, bus, dbg, msr>>

CfgBackButton(config) ==
  /\ cfg' = [fn |-> "createBackButtonPrefab", config |-> config,
             prefab |-> BackButtonPrefab(config)]
  /\ UNCHANGED <<levelVars, ui, mgr, reg, spin, imp, col, pf, tpl, loop, bus, dbg, msr>>

CfgNext ==
  \/ \E config \in MenuItemConfigs : CfgMenuItem(config)
  \/ \E options \in AiBotOptions : CfgAiBot(options)
  \/ \E config \in BackButtonConfigs : CfgBackButton(config)

CfgSpec == CfgInit /\ [][CfgNext]_vars

GeometryMatchesData(p) ==
  p.mesh.geometryArgs = <<MenuItemComponentOf(p.menuItem).width, MenuItemComponentOf(p.menuItem).height>>
  /\ p.mesh.geometryArgs = <<p.menuItem.width, p.menuItem.height>>

OptionalDefaults ==
  /\ cfg.fn = "createMenuItemPrefab" =>
       /\ cfg.config.width = Missing => cfg.prefab.mesh.geometryArgs[1] = "4"
       /\ cfg.config.height = Missing => cfg.prefab.mesh.geometryArgs[2] = "0.8"
       /\ cfg.config.fontSize = Missing => TextComponentOf(cfg.prefab.text).fontSize = "64"
       /\ cfg.config.position = Missing => cfg.prefab.transform.position = "(0,0,0)"
       /\ cfg.config.scale = Missing => cfg.prefab.transform.scale = "(1,1,1)"
       /\ cfg.config.normalColor = Missing =>
            /\ cfg.prefab.mesh.color = "1a1a2e"
            /\ MenuItemComponentOf(cfg.prefab.menuItem).normalColor = "1a1a2e"
       /\ GeometryMatchesData(cfg.prefab)
  /\ cfg.fn = "createAiBotPrefab" =>
       /\ cfg.config.position = Missing => cfg.prefab.transform.position = "(0,0,0)"
       /\ cfg.config.rotation = Missing => cfg.prefab.transform.rotation = "(0,0,0)"
       /\ cfg.config.scale = Missing => cfg.prefab.transform.scale = "(1,1,1)"
       /\ cfg.config.initialAnimation = Missing => cfg.prefab.animation.autoPlayState = "idle"

RequiredDefaults ==
  /\ cfg.fn = "createMenuItemPrefab" =>
       /\ MenuItemComponentOf(cfg.prefab.menuItem).text # Missing
       /\ MenuItemComponentOf(cfg.prefab.menuItem).callback # Missing
       /\ TextComponentOf(cfg.prefab.text).text # Missing
  /\ cfg.fn = "createBackButtonPrefab" => cfg.prefab.event.handler # Missing

\* C23 (as stated): every field of the configuration of a prefab construction
\* function may be omitted and then takes a fixed default (menu item: width 4,
\* height 0.8, font size 64; bot: position origin, scale 1, initial animation
\* idle), and the width and height of the menu item's mesh geometry equal
\* those of its menu-item data.
C23_EveryFieldHasDefault == OptionalDefaults /\ RequiredDefaults

\* C23 (amended): every field the configuration type declares optional takes
\* its fixed default when omitted, and the width and height of the menu
\* item's mesh geometry equal those of its menu-item data; text and callback
\* of a menu item and onBackClick of the back button are required and have no
\* default.
C23_OptionalFieldsHaveDefault == OptionalDefaults

C23_Witness ==
  /\ cfg.fn = "createMenuItemPrefab"
  /\ cfg.config.width = Missing /\ cfg.config.height = "2" /\ cfg.config.fontSize = Missing
  /\ cfg.config.text = "Options"
  /\ cfg.prefab.menuItem.width = "4" /\ cfg.prefab.menuItem.height = "2"

----------------------------------------------------------------------------
\* Prefab registry and instantiation.  The registry and the prefab service
\* belong to the engine: registerPrefab stores the template under its name,
\* replacing an earlier one; createEntityFromPrefab returns null for an
\* unknown name and otherwise a new entity with the components the factories
\* build from the template.  What the engine does with a factory that
\* returns null is left open: it skips the component or gives up the entity.

MaxRegistrations == 2   \* bound: registerPrefab calls in one behaviour
MaxEntities == 3        \* bound: entities instantiated in one behaviour

Callbacks == {"cbA", "cbB"}
MenuTags == {"TRANSFORM", "UI", "MESH", "TEXT", "MENU_ITEM"}
BackButtonTags == {"DOM_UI_ELEMENT", "DOM_UI_EVENT", "DOM_UI_STYLE"}
OnNull == {"skip", "giveUp"}

OnlyGiven(text, cb) ==
  [text |-> text, callback |-> cb, position |-> Missing, scale |-> Missing,
   width |-> Missing, height |-> Missing, fontSize |-> Missing, normalColor |-> Missing]

\* The template a prefab amounts to: name, tags, and the data the factories
\* look at.
MenuItemTemplate(text, cb) ==
  LET p == MenuItemPrefab(OnlyGiven(text, cb))
  IN [name |-> p.name, tags |-> MenuTags, text |-> p.menuItem.text,
      callback |-> p.menuItem.callback]
BackButtonTemplate(cb) ==
  LET p == BackButtonPrefab([onBackClick |-> cb])
  IN [name |-> p.name, tags |-> BackButtonTags, text |-> "Back to Menu",
      callback |-> p.event.handler]

TemplateNames == {<<"MenuItem", "">>, <<"MenuItem", "Options">>, <<"BackButton", "">>}

InitTpl ==
  [registry |-> [n \in TemplateNames |-> <<>>], regs |-> <<>>, entities |-> <<>>,
   result |-> 0, trace |-> <<>>]

\* prefabRegistry.registerPrefab(prefab)
registerTemplate(t, tmpl) ==
  [Log(t, "registerPrefab") EXCEPT !.registry[tmpl.name] = <<tmpl>>,
                                   !.regs = Append(@, tmpl)]

\* Variant of the MENU_ITEM factory that rejects every data.
menuItemFactoryRejecting(tmpl) == FALSE

\* The MENU_ITEM and TEXT factories: TRUE if a component is returned.
menuItemFactory(tmpl) == ~(Falsy(tmpl.text) \/ Falsy(tmpl.callback))
textFactory(tmpl) == ~Falsy(tmpl.text)
Built(tmpl) ==
  {tag \in tmpl.tags : /\ tag = "MENU_ITEM" => menuItemFactory(tmpl)
                       /\ tag = "TEXT" => textFactory(tmpl)}

\* prefabService.createEntityFromPrefab(name)
createEntityFromPrefab(t, name, onNull) ==
  LET t0 == Log(t, "createEntityFromPrefab")
  IN IF t0.registry[name] = <<>> THEN [t0 EXCEPT !.result = 0]
     ELSE LET tmpl == t0.registry[name][1]
              id == Len(t0.entities) + 1
          IN IF Built(tmpl) # tmpl.tags /\ onNull = "giveUp"
             THEN [Log(t0, "logger.error") EXCEPT !.result = 0]
             ELSE [t0 EXCEPT !.result = id,
                             !.entities = Append(@, [id |-> id, name |-> name,
                                                     components |-> Built(tmpl),
                                                     callback |-> tmpl.callback,
                                                     after |-> Len(t0.regs)])]

\* Variant of setupUI that instantiates before it registers.
setupUIBackButtonInstantiateFirst(t, cb, onNull) ==
  registerTemplate(createEntityFromPrefab(Log(t, "setupUI"), BackButtonTemplate(cb).name, onNull),
                   BackButtonTemplate(cb))

\* SimpleLevel.setupUI: build the back button prefab with the level's own
\* callback, register it, instantiate it.
setupUIBackButton(t, cb, onNull) ==
  createEntityFromPrefab(registerTemplate(Log(t, "setupUI"), BackButtonTemplate(cb)),
                         BackButtonTemplate(cb).name, onNull)

\* One round of the loop of MenuTestLevel.createMenuItems.
createMenuItem(t, text, cb, onNull) ==
  createEntityFromPrefab(registerTemplate(Log(t, "createMenuItems"), MenuItemTemplate(text, cb)),
                         MenuItemTemplate(text, cb).name, onNull)

TplInit == LevelParked /\ TplOnly /\ tpl = InitTpl

CanRegister == Len(tpl.regs) < MaxRegistrations /\ Len(tpl.entities) < MaxEntities

TplSetupUI(cb, onNull) ==
  /\ CanRegister
  /\ tpl' = setupUIBackButton(Begin(tpl), cb, onNull)
  /\ UNCHANGED <<levelVars, ui, mgr, reg, spin, imp, col, pf, cfg, loop, bus, dbg, msr>>

TplCreateMenuItem(text, cb, onNull) ==
  /\ CanRegister
  /\ tpl' = createMenuItem(Begin(tpl), text, cb, onNull)
  /\ UNCHANGED <<levelVars, ui, mgr, reg, spin, imp, col, pf, cfg, loop, bus, dbg, msr>>

\* A further instantiation of a name (a level that is set up again).
TplInstantiate(name, onNull) ==
  /\ Len(tpl.entities) < MaxEntities
  /\ tpl.result # 0 \/ tpl.trace = <<>>
  /\ tpl' = createEntityFromPrefab(Begin(tpl), name, onNull)
  /\ UNCHANGED <<levelVars, ui, mgr, reg, spin, imp, col, pf, cfg, loop, bus, dbg, msr>>

TplNext ==
  \/ \E cb \in Callbacks, onNull \in OnNull : TplSetupUI(cb, onNull)
  \/ \E text \in {"", "Options"}, cb \in Callbacks, onNull \in OnNull :
       TplCreateMenuItem(text, cb, onNull)
  \/ \E name \in TemplateNames, onNull \in OnNull : TplInstantiate(name, onNull)

TplSpec == TplInit /\ [][TplNext]_vars

\* The template registered last under a name among the first k registrations.
RegsOf(t, name, k) == {i \in 1..k : t.regs[i].name = name}
LatestOf(t, name, k) == t.regs[CHOOSE i \in RegsOf(t, name, k) : \A j \in RegsOf(t, name, k) : j <= i]

\* C21: an entity instantiated after a prefab was registered again under an
\* existing name is built only from the latest definition: its callback is
\* the one of the latest registration under that name, and the entity a level
\* creates right after registering its prefab carries that level's callback.
C21_LatestDefinitionUsed ==
  /\ \A i \in 1..Len(tpl.entities) :
       LET e == tpl.entities[i]
       IN /\ RegsOf(tpl, e.name, e.after) # {}
          /\ e.callback = LatestOf(tpl, e.name, e.after).callback
  /\ ((Ran(tpl, "setupUI") \/ Ran(tpl, "createMenuItems")) /\ tpl.result # 0) =>
       /\ tpl.entities[tpl.result].after = Len(tpl.regs)
       /\ tpl.entities[tpl.result].callback = tpl.regs[Len(tpl.regs)].callback

C21_Witness ==
  \E i \in 1..Len(tpl.entities) :
    LET e == tpl.entities[i]
    IN /\ Cardinality(RegsOf(tpl, e.name, e.after)) = 2
       /\ tpl.regs[1].callback = "cbA"
       /\ e.callback = "cbB"

Accepted(tmpl) == ~Falsy(tmpl.text) /\ ~Falsy(tmpl.callback)
AllTagsCarried(ok(_)) ==
  /\ \A i, j \in 1..Len(tpl.entities) : i # j => tpl.entities[i].id # tpl.entities[j].id
  /\ \A i \in 1..Len(tpl.entities) :
       LET e == tpl.entities[i]
       IN ok(LatestOf(tpl, e.name, e.after)) =>
            e.components = LatestOf(tpl, e.name, e.after).tags
  /\ (Ran(tpl, "setupUI") \/ Ran(tpl, "createMenuItems")) =>
       (ok(tpl.regs[Len(tpl.regs)]) => tpl.result # 0)

AnyData(tmpl) == TRUE

\* C22 (as stated): instantiating a registered prefab twice yields two
\* entities with distinct ids, each carrying a component for every tag
\* listed in the prefab, also when the components are built by the game
\* factories for menu-item and text.
C22_EveryTagCarried == AllTagsCarried(AnyData)

\* C22 (amended): the same, for prefabs whose data the game factories accept:
\* a menu-item or text component is built only from a non-empty text (and,
\* for the menu item, a callback).
C22_EveryTagCarriedIfAccepted == AllTagsCarried(Accepted)

C22_Witness ==
  \E i, j \in 1..Len(tpl.entities) :
    /\ i # j
    /\ tpl.entities[i].name = <<"MenuItem", "Options">>
    /\ tpl.entities[j].name = <<"MenuItem", "Options">>
    /\ tpl.entities[i].components = MenuTags
    /\ tpl.entities[j].components = MenuTags

----------------------------------------------------------------------------
\* The frame loop of one level with its clock.  BaseLevel (part_005) and the
\* older SimpleLevel (part_007), which starts its loop directly in start().
\* performance.now() is a monotonic clock in whole ticks.

MaxLoopBuilds == 2      \* bound: start() calls plus context restorations
MaxTime == 2            \* bound: clock ticks in one behaviour

LoopKinds == {"BaseLevel", "SimpleLevel"}
LoopFrameOutcomes == FrameOutcomes \cup {"stopInUpdate"}
\* The subclass whose hooks stand for setupLevel() of a BaseLevel.
HookKind == "AioBotCharacterLevel"

InitLoop(k) ==
  [kind |-> k, s |-> InitLevel, now |-> 0, lastTime |-> 0, dt |-> 0, resumedAt |-> 0,
   direct |-> FALSE, gap |-> 0, builds |-> 0, stoppedEarly |-> FALSE, atStop |-> {}]

\* Variant: the loop is resumed without sampling the clock.
lastTimeKept(l) == l.lastTime

\* this.lastTime = performance.now() before the direct call of animate()
lastTimeAtResume(l) == l.now

\* The clock part of animate(): deltaTime = now - lastTime; lastTime = now.
\* s1 is the level after the handler; direct says that the handler calls
\* animate() itself instead of being the frame callback.
withClock(l, s1, direct) ==
  IF ~HasEv(s1.trace, "world.update") THEN [l EXCEPT !.s = s1, !.direct = FALSE]
  ELSE LET last == IF direct THEN lastTimeAtResume(l) ELSE l.lastTime
       IN [l EXCEPT !.s = s1, !.dt = l.now - last, !.lastTime = l.now, !.direct = direct,
                    !.gap = l.now - l.lastTime,
                    !.resumedAt = IF direct THEN l.now ELSE @]

\* SimpleLevel (part_007)
simpleAnimate(s, out) ==
  LET s1 == Log(requestAnimationFrame(Log(s, "animate")), "world.update")
  IN IF out = "updateThrows" THEN Log(s1, "uncaught")
     ELSE IF out = "stopInUpdate" THEN Log(menuTestStop(s1), "render")
     ELSE IF out = "renderThrows" THEN Log(Log(s1, "render"), "uncaught")
     ELSE Log(s1, "render")

simpleStart(s, out) ==
  LET s1 == Log(s, "start")
  IN IF s1.animationFrameId = Null THEN simpleAnimate(s1, out) ELSE s1

LoopInit == LevelParked /\ LoopOnly /\ loop \in {InitLoop(k) : k \in LoopKinds}

LoopTick ==
  /\ loop.now < MaxTime
  /\ loop' = [loop EXCEPT !.now = @ + 1]
  /\ UNCHANGED <<levelVars, ui, mgr, reg, spin, imp, col, pf, cfg, tpl, bus, dbg, msr>>

LoopStart(fout) ==
  /\ loop.builds < MaxLoopBuilds
  /\ loop' = [(IF loop.kind = "SimpleLevel"
               THEN withClock(loop, simpleStart(Begin(loop.s), fout), TRUE)
               ELSE withClock(loop, start(Begin(loop.s)), FALSE))
              EXCEPT !.builds = @ + 1, !.stoppedEarly = FALSE]
  /\ UNCHANGED <<levelVars, ui, mgr, reg, spin, imp, col, pf, cfg, tpl, bus, dbg, msr>>

LoopStartTimerFires(replace) ==
  /\ loop.s.timers["start"] > 0
  /\ loop' = withClock(loop, initializeLevelBegin(clearTimer(Begin(loop.s), "start"), replace), FALSE)
  /\ UNCHANGED <<levelVars, ui, mgr, reg, spin, imp, col, pf, cfg, tpl, bus, dbg, msr>>

LoopInitResume(out, fout) ==
  /\ loop.s.awaiting > 0
  /\ loop' = withClock(loop, initializeLevelResume(Begin(loop.s), HookKind, out, fout), TRUE)
  /\ UNCHANGED <<levelVars, ui, mgr, reg, spin, imp, col, pf, cfg, tpl, bus, dbg, msr>>

LoopFrame(out) ==
  /\ loop.s.frames # <<>>
  /\ loop' = withClock(loop,
                       IF loop.kind = "SimpleLevel"
                       THEN simpleAnimate([Begin(loop.s) EXCEPT !.frames = Tail(@)], out)
                       ELSE animate([Begin(loop.s) EXCEPT !.frames = Tail(@)], out),
                       FALSE)
  /\ UNCHANGED <<levelVars, ui, mgr, reg, spin, imp, col, pf, cfg, tpl, bus, dbg, msr>>

LoopContextLost(c) ==
  /\ <<c, "webglcontextlost">> \in loop.s.listeners
  /\ loop' = withClock(loop, handleContextLoss(Begin(loop.s)), FALSE)
  /\ UNCHANGED <<levelVars, ui, mgr, reg, spin, imp, col, pf, cfg, tpl, bus, dbg, msr>>

LoopContextRestored(c, replace, out, fout) ==
  /\ <<c, "webglcontextrestored">> \in loop.s.listeners
  /\ loop.builds < MaxLoopBuilds
  /\ loop' = [withClock(loop, handleContextRestored(Begin(loop.s), HookKind, replace, out, fout), TRUE)
              EXCEPT !.builds = @ + 1]
  /\ UNCHANGED <<levelVars, ui, mgr, reg, spin, imp, col, pf, cfg, tpl, bus, dbg, msr>>

LoopStop ==
  /\ loop.builds > 0
  /\ LET s1 == IF loop.kind = "SimpleLevel" THEN menuTestStop(Begin(loop.s)) ELSE stop(Begin(loop.s))
     IN loop' = [withClock(loop, s1, FALSE) EXCEPT
                   !.stoppedEarly = (loop.s.timers["start"] > 0 \/ loop.s.awaiting > 0),
                   !.atStop = s1.listeners]
  /\ UNCHANGED <<levelVars, ui, mgr, reg, spin, imp, col, pf, cfg, tpl, bus, dbg, msr>>

LoopNext ==
  \/ LoopTick
  \/ \E fout \in LoopFrameOutcomes : LoopStart(fout)
  \/ \E replace \in BOOLEAN : LoopStartTimerFires(replace)
  \/ \E out \in InitOutcomes, fout \in LoopFrameOutcomes : LoopInitResume(out, fout)
  \/ \E out \in LoopFrameOutcomes : LoopFrame(out)
  \/ \E c \in {l[1] : l \in loop.s.listeners} : LoopContextLost(c)
  \/ \E c \in {l[1] : l \in loop.s.listeners}, replace \in BOOLEAN,
        out \in RestoreOutcomes, fout \in LoopFrameOutcomes : LoopContextRestored(c, replace, out, fout)
  \/ LoopStop

LoopSpec == LoopInit /\ [][LoopNext]_vars

\* C24: if stop() is called after start() but before the delayed
\* initialization has completed, the initialization does not afterwards
\* attach context listeners, run setupLevel or start the frame loop.
C24_StopCancelsInitialization ==
  (loop.stoppedEarly /\ (Ran(loop.s, "initializeLevel") \/ Ran(loop.s, "initializeLevel:resume"))) =>
    /\ loop.s.listeners \subseteq loop.atStop
    /\ ~HasEv(loop.s.trace, "setupLevel")
    /\ ~HasEv(loop.s.trace, "animate")

C29_DeltaTimeExcludesPause ==
  HasEv(loop.s.trace, "world.update") =>
    /\ loop.dt >= 0
    /\ loop.dt <= loop.now - loop.resumedAt
    /\ loop.direct => loop.dt = 0

C29_Witness ==
  /\ loop.kind = "BaseLevel"
  /\ Ran(loop.s, "handleContextRestored")
  /\ HasEv(loop.s.trace, "world.update")
  /\ loop.direct
  /\ loop.gap > 0
  /\ loop.dt = 0

----------------------------------------------------------------------------
\* Event-bus listeners of the levels and systems.  A handler is a function
\* value: boundEventHandler of MeshRegistrationSystem is one stored value,
\* while every evaluation of an arrow function or of f.bind(this) is a new
\* one.  Function values are records [o, n]: n-th function made by owner o.

MaxSetups == 2          \* bound: setupLevel()/initialize() runs per owner

BusOwners == {"MainMenuLevel", "PhysicsCollisionLevel", "PhysicsOverlapLevel",
              "CharacterUISystem", "MeshRegistrationSystem"}
BusLevels == {"MainMenuLevel", "PhysicsCollisionLevel", "PhysicsOverlapLevel"}

InitBus ==
  [listeners |-> {}, made |-> [o \in BusOwners |-> 0], setups |-> [o \in BusOwners |-> 0],
   live |-> [o \in BusOwners |-> FALSE], cleanupCallbacks |-> {},
   last |-> [op |-> "none", owner |-> "none"]]

\* The function value the next arrow function or bind() of owner o yields.
newFunction(b, o) == [o |-> o, n |-> b.made[o] + 1]
made(b, o) == [b EXCEPT !.made[o] = @ + 1]

\* MeshRegistrationSystem.boundEventHandler, bound once in the constructor.
boundEventHandler == [o |-> "MeshRegistrationSystem", n |-> 0]

\* eventBus.on(name, handler) / eventBus.off(name, handler): off removes the
\* listener registered with the same function value.
on(b, name, handler) == [b EXCEPT !.listeners = @ \cup {[ev |-> name, fn |-> handler]}]
off(b, name, handler) == [b EXCEPT !.listeners = @ \ {[ev |-> name, fn |-> handler]}]

\* MainMenuLevel.setupMenu / cleanupLevelSpecifics
mainMenuSetup(b) ==
  made(on(b, "ui_selection_changed", newFunction(b, "MainMenuLevel")), "MainMenuLevel")
mainMenuCleanup(b) ==
  made(off(b, "ui_selection_changed", newFunction(b, "MainMenuLevel")), "MainMenuLevel")

\* PhysicsCollisionLevel.setupLevel / cleanupLevelSpecifics: the callbacks
\* run by cleanup only clear intervals.
collisionSetup(b) ==
  LET b1 == made(on(b, "physics_collision_start", newFunction(b, "PhysicsCollisionLevel")),
                 "PhysicsCollisionLevel")
  IN made(on(b1, "physics_collision_end", newFunction(b1, "PhysicsCollisionLevel")),
          "PhysicsCollisionLevel")
collisionCleanup(b) == b

\* PhysicsOverlapLevel.setupOverlapHandlers / cleanupLevelSpecifics
overlapSetup(b) ==
  LET o == "PhysicsOverlapLevel"
      b1 == made(off(b, "legacy_overlap_start", newFunction(b, o)), o)
      b2 == made(off(b1, "legacy_overlap_end", newFunction(b1, o)), o)
      hs == newFunction(b2, o)
      b3 == made(on(b2, "physics_collision_start", hs), o)
      he == newFunction(b3, o)
      b4 == made(on(b3, "physics_collision_end", he), o)
  IN [b4 EXCEPT !.cleanupCallbacks = @ \cup {<<hs, he>>}]

RECURSIVE runCallbacks(_, _)
runCallbacks(b, cbs) ==
  IF cbs = {} THEN b
  ELSE LET cb == CHOOSE c \in cbs : TRUE
       IN runCallbacks(off(off(b, "physics_collision_start", cb[1]), "physics_collision_end", cb[2]),
                       cbs \ {cb})

overlapCleanup(b) == [runCallbacks(b, b.cleanupCallbacks) EXCEPT !.cleanupCallbacks = {}]

\* CharacterUISystem.initialize / cleanup
characterUIInitialize(b) ==
  made(on(b, "model_ready", newFunction(b, "CharacterUISystem")), "CharacterUISystem")
characterUICleanup(b) ==
  made(off(b, "model_ready", newFunction(b, "CharacterUISystem")), "CharacterUISystem")

\* MeshRegistrationSystem.initialize (a SceneSystem is present) / cleanup
meshRegistrationInitialize(b) == on(b, "entityCreatedFromPrefab", boundEventHandler)
meshRegistrationCleanup(b) == off(b, "entityCreatedFromPrefab", boundEventHandler)

busSetup(b, o) ==
  CASE o = "MainMenuLevel" -> mainMenuSetup(b)
    [] o = "PhysicsCollisionLevel" -> collisionSetup(b)
    [] o = "PhysicsOverlapLevel" -> overlapSetup(b)
    [] o = "CharacterUISystem" -> characterUIInitialize(b)
    [] OTHER -> meshRegistrationInitialize(b)

busCleanup(b, o) ==
  CASE o = "MainMenuLevel" -> mainMenuCleanup(b)
    [] o = "PhysicsCollisionLevel" -> collisionCleanup(b)
    [] o = "PhysicsOverlapLevel" -> overlapCleanup(b)
    [] o = "CharacterUISystem" -> characterUICleanup(b)
    [] OTHER -> meshRegistrationCleanup(b)

BusInit == LevelParked /\ BusOnly /\ bus = InitBus

\* setupLevel() of a level (first run, or again through
\* recreateSceneAfterContextRestore), initialize() of a system not yet added.
BusSetup(o) ==
  /\ bus.setups[o] < MaxSetups
  /\ o \in BusLevels \/ ~bus.live[o]
  /\ o = "MainMenuLevel" => ~bus.live[o]
  /\ bus' = [busSetup(bus, o) EXCEPT !.setups[o] = @ + 1, !.live[o] = TRUE,
                                     !.last = [op |-> "setup", owner |-> o]]
  /\ UNCHANGED <<levelVars, ui, mgr, reg, spin, imp, col, pf, cfg, tpl, loop, dbg, msr>>

BusCleanup(o) ==
  /\ bus.live[o]
  /\ bus' = [busCleanup(bus, o) EXCEPT !.live[o] = FALSE, !.last = [op |-> "cleanup", owner |-> o]]
  /\ UNCHANGED <<levelVars, ui, mgr, reg, spin, imp, col, pf, cfg, tpl, loop, dbg, msr>>

BusNext == \E o \in BusOwners : BusSetup(o) \/ BusCleanup(o)

BusSpec == BusInit /\ [][BusNext]_vars

ListenersOf(o) == {l \in bus.listeners : l.fn.o = o}

\* C26: after cleanup() of a level or system, no event-bus listener that it
\* registered remains attached.
C26_CleanupRemovesListeners ==
  bus.last.op = "cleanup" => ListenersOf(bus.last.owner) = {}

----------------------------------------------------------------------------
\* PhysicsDebugSystem: debug meshes in the scene and the debugObjects map.
\* A mesh is a record [e, n]: the n-th mesh created, for entity e.
\* debugObjects[e] is <<>> or the one mesh stored under e.

MaxDebugCalls == 3      \* bound: initialize() and update() calls
NumDebugEntities == 2   \* bound: entity ids

DebugEntities == 1..NumDebugEntities
\* An entity of the world: with rigid body, collider and transform, or with
\* rigid body and transform only.
DebugEntityKinds == {"body", "noCollider"}
Absent == "absent"

InitDbg ==
  [world |-> [e \in DebugEntities |-> Absent], scene |-> {},
   debugObjects |-> [e \in DebugEntities |-> <<>>], sceneSystem |-> FALSE,
   meshes |-> 0, calls |-> 0, trace |-> <<>>]

createDebugVisualForEntity(d, e) ==
  IF ~d.sceneSystem \/ d.world[e] # "body" THEN d
  ELSE LET m == [e |-> e, n |-> d.meshes + 1]
       IN [d EXCEPT !.scene = @ \cup {m}, !.debugObjects[e] = <<m>>, !.meshes = @ + 1]

RECURSIVE createDebugVisualsFrom(_, _)
createDebugVisualsFrom(d, e) ==
  IF e > NumDebugEntities THEN d
  ELSE createDebugVisualsFrom(IF d.world[e] = "body" THEN createDebugVisualForEntity(d, e) ELSE d,
                              e + 1)

createDebugVisualsForExistingBodies(d) == createDebugVisualsFrom(d, 1)

\* initialize(world): the SceneSystem is in the world.
debugInitialize(d) ==
  createDebugVisualsForExistingBodies([Log(d, "initialize") EXCEPT !.sceneSystem = TRUE])

RECURSIVE debugUpdateFrom(_, _)
debugUpdateFrom(d, e) ==
  IF e > NumDebugEntities THEN d
  ELSE debugUpdateFrom(IF d.world[e] # Absent /\ d.debugObjects[e] = <<>>
                       THEN createDebugVisualForEntity(d, e) ELSE d,
                       e + 1)

debugUpdate(d) ==
  IF ~d.sceneSystem THEN Log(d, "update") ELSE debugUpdateFrom(Log(d, "update"), 1)

debugCleanup(d) ==
  LET d1 == Log(d, "cleanup")
      stored == {d1.debugObjects[e][1] : e \in {x \in DebugEntities : d1.debugObjects[x] # <<>>}}
      d2 == IF d1.sceneSystem
            THEN [d1 EXCEPT !.scene = @ \ stored, !.debugObjects = [e \in DebugEntities |-> <<>>]]
            ELSE d1
  IN [d2 EXCEPT !.sceneSystem = FALSE]

DbgInit == LevelParked /\ DbgOnly /\ dbg = InitDbg

DbgAddEntity(e, k) ==
  /\ dbg.world[e] = Absent
  /\ dbg' = [Begin(dbg) EXCEPT !.world[e] = k]
  /\ UNCHANGED <<levelVars, ui, mgr, reg, spin, imp, col, pf, cfg, tpl, loop, bus, msr>>

DbgInitialize ==
  /\ dbg.calls < MaxDebugCalls
  /\ dbg' = [debugInitialize(Begin(dbg)) EXCEPT !.calls = @ + 1]
  /\ UNCHANGED <<levelVars, ui, mgr, reg, spin, imp, col, pf, cfg, tpl, loop, bus, msr>>

DbgUpdate ==
  /\ dbg.calls < MaxDebugCalls
  /\ dbg' = [debugUpdate(Begin(dbg)) EXCEPT !.calls = @ + 1]
  /\ UNCHANGED <<levelVars, ui, mgr, reg, spin, imp, col, pf, cfg, tpl, loop, bus, msr>>

DbgCleanup ==
  /\ dbg' = debugCleanup(Begin(dbg))
  /\ UNCHANGED <<levelVars, ui, mgr, reg, spin, imp, col, pf, cfg, tpl, loop, bus, msr>>

DbgNext ==
  \/ \E e \in DebugEntities, k \in DebugEntityKinds : DbgAddEntity(e, k)
  \/ DbgInitialize
  \/ DbgUpdate
  \/ DbgCleanup

DbgSpec == DbgInit /\ [][DbgNext]_vars

\* C27: every debug mesh the system has added to the scene is recorded in
\* debugObjects under its entity id (so at most one per entity is in the
\* scene), and after cleanup() no debug mesh of the system is in the scene.
C27_DebugMeshesTracked ==
  /\ \A m \in dbg.scene : dbg.debugObjects[m.e] = <<m>>
  /\ Ran(dbg, "cleanup") => dbg.scene = {}

----------------------------------------------------------------------------
\* The overlap handlers under arbitrary event sequences, with the pair of
\* handlers registered once more by every setupOverlapHandlers() that a
\* context restoration runs (recreateSceneAfterContextRestore -> setupLevel).

MaxOverlapEvents == 3   \* bound: collision events emitted in one behaviour
MaxHandlerSets == 2     \* bound: registrations of the handler pair

\* eventBus.emit: every registered handler runs, in registration order.
RECURSIVE emitCollision(_, _, _, _, _)
emitCollision(c, a, b, k, isStart) ==
  IF k = 0 THEN c
  ELSE emitCollision(IF isStart THEN handleCollisionStart(c, a, b) ELSE handleCollisionEnd(c, a, b),
                     a, b, k - 1, isStart)

\* History: the colour each material had before its first sensor
\* collision-start (NoColor before there was one).
NoteFirst(c, a, b, before) ==
  LET t == targetOf(a, b)
  IN IF (a = SensorId \/ b = SensorId) /\ t \in WorldIds /\ c.beforeFirst[t] = NoColor
     THEN [c EXCEPT !.beforeFirst[t] = before[t]]
     ELSE c

OvInit ==
  /\ LevelParked /\ ColOnly
  /\ \E colors \in [WorldIds -> BoxColors], mesh \in [WorldIds -> BOOLEAN] :
       /\ mesh[SensorId]
       /\ col = [color |-> colors, mesh |-> mesh,
                 originalColor |-> [t \in WorldIds |-> NoColor],
                 beforeFirst |-> [t \in WorldIds |-> NoColor],
                 prev |-> colors, last |-> <<SensorId, SensorId>>,
                 handlers |-> 1, starts |-> 0, n |-> 0, trace |-> <<>>]

OvStart(a, b) ==
  /\ col.n < MaxOverlapEvents
  /\ col' = [NoteFirst(emitCollision(col, a, b, col.handlers, TRUE), a, b, col.color)
             EXCEPT !.prev = col.color, !.last = <<a, b>>, !.n = @ + 1, !.starts = @ + 1]
  /\ UNCHANGED <<levelVars, ui, mgr, reg, spin, imp, pf, cfg, tpl, loop, bus, dbg, msr>>

OvEnd(a, b) ==
  /\ col.n < MaxOverlapEvents
  /\ col' = [emitCollision(col, a, b, col.handlers, FALSE)
             EXCEPT !.prev = col.color, !.last = <<a, b>>, !.n = @ + 1]
  /\ UNCHANGED <<levelVars, ui, mgr, reg, spin, imp, pf, cfg, tpl, loop, bus, dbg, msr>>

OvRestore ==
  /\ col.handlers < MaxHandlerSets
  /\ col' = [Begin(col) EXCEPT !.handlers = @ + 1, !.prev = col.color]
  /\ UNCHANGED <<levelVars, ui, mgr, reg, spin, imp, pf, cfg, tpl, loop, bus, dbg, msr>>

OvNext ==
  \/ \E a, b \in EventIds : OvStart(a, b)
  \/ \E a, b \in EventIds : OvEnd(a, b)
  \/ OvRestore

OvSpec == OvInit /\ [][OvNext]_vars

\* C28: for any sequence of collision-start and collision-end events, the
\* colour cached on a material, once stored, equals the colour the material
\* had before its first sensor collision, and an event that does not involve
\* the sensor changes no material colour.
C28_CacheKeepsFirstColor ==
  /\ \A t \in WorldIds :
       col.originalColor[t] # NoColor => col.originalColor[t] = col.beforeFirst[t]
  /\ (col.n > 0 /\ col.last[1] # SensorId /\ col.last[2] # SensorId) => col.color = col.prev

C28_Witness ==
  /\ col.handlers = MaxHandlerSets
  /\ col.starts >= 2
  /\ \E t \in 1..NumTargets :
       /\ col.originalColor[t] \notin {NoColor, Red}
       /\ col.color[t] = Red
       /\ col.last = <<t, SensorId>>

----------------------------------------------------------------------------
\* MeshRegistrationSystem and the order in which systems are added to the
\* world.  msr.reg is the registration record of RegSpec (entity, scene).

MaxCreatedEvents == 2   \* bound: entityCreatedFromPrefab events

\* initGame(): the systems in the order main.ts adds them.
initGameSystems ==
  <<"SceneSystem", "WindowSystem", "RenderSystem", "DOMUISystem", "InputSystem",
    "UINavigationSystem", "PhysicsSystem", "OrbitCameraSystem", "SpinningSystem",
    "GameMeshRegistrationSystem", "GameUIRegistrationSystem">>

InitMsr(hasBus) ==
  [systems |-> <<>>, eventBus |-> hasBus, sceneSystem |-> FALSE, worldInstance |-> FALSE,
   listener |-> FALSE, initialized |-> FALSE, sceneAtInit |-> FALSE, entry |-> FALSE,
   reg |-> [InitReg EXCEPT !.system = "MeshRegistrationSystem"], trace |-> <<>>]

InWorld(m, sys) == \E i \in 1..Len(m.systems) : m.systems[i] = sys

\* Variant: the listener is registered although no SceneSystem was found.
msrInitializeAlwaysListens(m) ==
  LET found == InWorld(m, "SceneSystem")
      m1 == [Log(m, "initialize") EXCEPT !.worldInstance = TRUE, !.sceneSystem = found,
                                         !.initialized = TRUE, !.sceneAtInit = found]
  IN IF m1.eventBus THEN [m1 EXCEPT !.listener = TRUE] ELSE Log(m1, "warn")

\* MeshRegistrationSystem.initialize(world)
msrInitialize(m) ==
  LET found == InWorld(m, "SceneSystem")
      m1 == [Log(m, "initialize") EXCEPT !.worldInstance = TRUE, !.sceneSystem = found,
                                         !.initialized = TRUE, !.sceneAtInit = found]
  IN IF ~found THEN Log(m1, "error")
     ELSE IF m1.eventBus THEN [m1 EXCEPT !.listener = TRUE]
     ELSE Log(m1, "warn")

\* world.addSystem(system): the system joins the world's list and, for a
\* mesh registration system, its initialize(world) is called.
addSystem(m, sys) ==
  LET m1 == [m EXCEPT !.systems = Append(@, sys)]
  IN IF sys \in {"MeshRegistrationSystem", "GameMeshRegistrationSystem"}
     THEN msrInitialize(m1) ELSE m1

RECURSIVE addSystemsFrom(_, _, _)
addSystemsFrom(m, list, i) ==
  IF i > Len(list) THEN m ELSE addSystemsFrom(addSystem(m, list[i]), list, i + 1)

initGame(m) == [addSystemsFrom(Log(m, "initGame"), initGameSystems, 1) EXCEPT !.entry = TRUE]

\* The listener boundEventHandler: handleEntityCreated(entity, prefabName).
msrHandleEntityCreated(m, e) ==
  LET m1 == Log(m, "handleEntityCreated")
  IN IF ~m1.sceneSystem THEN m1
     ELSE [m1 EXCEPT !.reg = meshRegistrationHandleEntityCreated(
                               [Begin(m1.reg) EXCEPT !.entity = e, !.n = @ + 1])]

\* eventBus.emit("entityCreatedFromPrefab", entity, prefabName)
emitEntityCreated(m, e) ==
  IF m.listener THEN msrHandleEntityCreated(Log(m, "emit"), e) ELSE Log(m, "emit")

\* MeshRegistrationSystem.cleanup()
msrCleanup(m) ==
  LET m1 == Log(m, "cleanup")
      m2 == IF m1.worldInstance /\ m1.eventBus THEN [m1 EXCEPT !.listener = FALSE] ELSE Log(m1, "warn")
  IN [m2 EXCEPT !.sceneSystem = FALSE, !.worldInstance = FALSE]

MsrInit == LevelParked /\ MsrOnly /\ msr \in {InitMsr(hasBus) : hasBus \in BOOLEAN}

MsrAddSystem(sys) ==
  /\ ~InWorld(msr, sys)
  /\ msr' = addSystem(Begin(msr), sys)
  /\ UNCHANGED <<levelVars, ui, mgr, reg, spin, imp, col, pf, cfg, tpl, loop, bus, dbg>>

MsrInitGame ==
  /\ msr.systems = <<>>
  /\ msr' = initGame(Begin(msr))
  /\ UNCHANGED <<levelVars, ui, mgr, reg, spin, imp, col, pf, cfg, tpl, loop, bus, dbg>>

MsrEntityCreated(e) ==
  /\ msr.reg.n < MaxCreatedEvents
  /\ msr' = [emitEntityCreated(Begin(msr), e) EXCEPT !.reg.n = msr.reg.n + 1]
  /\ UNCHANGED <<levelVars, ui, mgr, reg, spin, imp, col, pf, cfg, tpl, loop, bus, dbg>>

MsrCleanup ==
  /\ msr.initialized
  /\ ~Ran(msr, "cleanup")
  /\ msr' = msrCleanup(Begin(msr))
  /\ UNCHANGED <<levelVars, ui, mgr, reg, spin, imp, col, pf, cfg, tpl, loop, bus, dbg>>

MsrNext ==
  \/ \E sys \in {"SceneSystem", "MeshRegistrationSystem"} : MsrAddSystem(sys)
  \/ MsrInitGame
  \/ \E e \in SUBSET {"SPINNING_CUBE", "MESH"} : MsrEntityCreated(e)
  \/ MsrCleanup

MsrSpec == MsrInit /\ [][MsrNext]_vars

\* C30: MeshRegistrationSystem adds meshes only if a SceneSystem was already
\* in the world when its initialize() ran: if the SceneSystem is added later
\* or never, the system registers no listener, no entity-created event
\* reaches its handler and nothing is added to the scene; the application entry
\* point adds the SceneSystem before the registration system.
C30_MeshesOnlyWithSceneAtInit ==
  /\ ~msr.sceneAtInit => (~msr.listener /\ msr.reg.scene = <<>> /\ ~HasEv(msr.trace, "handleEntityCreated"))
  /\ msr.entry => msr.sceneAtInit

C30_Witness ==
  /\ msr.initialized
  /\ ~msr.sceneAtInit
  /\ InWorld(msr, "SceneSystem")
  /\ Ran(msr, "emit")
  /\ msr.reg.n = MaxCreatedEvents

====
